---- MODULE Spec2Model ----
(***************************************************************************)
(* Model of the flowbit_ai_system document pipeline:                       *)
(*   main.py upload_input  ->  ClassifierAgent.classify                    *)
(*                         ->  EmailAgent / JSONAgent / PDFAgent           *)
(*                         ->  ActionRouter.trigger_final_action           *)
(*                         ->  SharedMemory.write_interaction              *)
(* External calls (the Gemini capability, the CRM and risk-alert calls)    *)
(* are wrapped by tenacity's @retry; every attempt is one step.            *)
(***************************************************************************)
EXTENDS Integers, Sequences, FiniteSets, TLC

(***************************************************************************)
(* Bounds of the model.                                                    *)
(***************************************************************************)
\* number of requests (runs of upload_input) that may be in flight together
MaxRuns == 2

Runs == 1..MaxRuns

(***************************************************************************)
(* Python values.                                                          *)
(***************************************************************************)
\* Python's None
None == "None"
\* a key that is not in a dict
ABSENT == "ABSENT"
\* a value outside every enumeration (an arbitrary string or a non-string)
Bogus == "Bogus"

(***************************************************************************)
(* ClassifierAgent: schema and heuristic.                                  *)
(***************************************************************************)
FormatEnum == {"JSON", "Email", "PDF", "Unknown"}

IntentEnum == {"RFQ", "Complaint", "Invoice", "Regulation", "Fraud Risk", "Unknown"}

AgentEnum == {"EmailAgent", "JSONAgent", "PDFAgent", "UnknownAgent"}

\* The content handed to the pipeline, by the features the code looks at:
\*   kind     "dict" | "list" (a JSON value that is neither an object nor a
\*            string, such as [1, 2]) | "str"
\*   exists   os.path.exists(content)
\*   hdr      matches  Subject:...\n | From:...\n | To:...\n | Dear <word>
\*   kw       matches  \b(invoice|bill|document|policy|regulation)\b
\*   marker   matches  \b(PDF|PDF document|document analysis)\b
\*   ext      what the lower-cased string ends with: "pdf" | "eml" | "other"
\*   payload  for a dict, the required_schemas entry its fields satisfy
\*            ("none" when it satisfies no schema) and, for "Fraud Risk",
\*            whether risk_score > 0.8
\*   doc      for a stored PDF file, what PyPDF2 and the regular expressions
\*            find in it: "unreadable" (error or blank text), "invoice_high"
\*            (Total above 10000), "invoice_low", "policy_hit" (GDPR, FDA,
\*            HIPAA or CCPA mentioned), "plain"
Content(kind, exists, hdr, kw, marker, ext, payload, doc) ==
    [kind |-> kind, exists |-> exists, hdr |-> hdr, kw |-> kw,
     marker |-> marker, ext |-> ext, payload |-> payload, doc |-> doc]

Payloads == {"Fraud Risk high", "Fraud Risk", "RFQ", "Invoice", "none"}

Docs == {"unreadable", "invoice_high", "invoice_low", "policy_hit", "plain"}

DictContents ==
    { Content("dict", FALSE, FALSE, FALSE, FALSE, "other", p, "n/a") : p \in Payloads }

\* json.loads of a payload that is valid JSON but not an object
ListContent == Content("list", FALSE, FALSE, FALSE, FALSE, "other", "n/a", "n/a")

\* raw_text form field
TextContents ==
    { Content("str", FALSE, h, k, m, "other", "n/a", "n/a") : h, k, m \in BOOLEAN }

\* os.path.join(UPLOAD_DIR, filename) of a file that was just saved; the
\* ".pdf" suffix itself matches the \bPDF\b marker, case-insensitively
PdfPathContents ==
    { Content("str", TRUE, FALSE, k, TRUE, "pdf", "n/a", d) : k \in BOOLEAN, d \in Docs }

EmlPathContent == Content("str", TRUE, FALSE, FALSE, FALSE, "eml", "n/a", "n/a")

\* (input_type, input_content) as upload_input builds it from the request
Input(input_type, content) == [input_type |-> input_type, content |-> content]

NoInput == Input("none", ListContent)

AllInputs ==
    { Input("json", c) : c \in DictContents \cup {ListContent} }
    \cup { Input("email_text", c) : c \in TextContents }
    \cup { Input("pdf", c) : c \in PdfPathContents }
    \cup { Input("email_file", EmlPathContent) }

_infer_format_heuristic(c) ==
    IF c.kind = "dict" THEN "JSON"
    ELSE IF c.kind = "str" THEN
        IF c.hdr THEN "Email"
        ELSE IF c.kw /\ c.marker THEN "PDF"
        ELSE IF c.ext = "pdf" THEN "PDF"
        ELSE IF c.ext = "eml" THEN "Email"
        ELSE "Unknown"
    ELSE "Unknown"

\* the dict literal with .get(inferred_format, "UnknownAgent")
HeuristicAgent(f) ==
    CASE f = "Email" -> "EmailAgent"
      [] f = "JSON"  -> "JSONAgent"
      [] f = "PDF"   -> "PDFAgent"
      [] OTHER       -> "UnknownAgent"

Classification(f, i, a) == [format |-> f, intent |-> i, routed_agent |-> a]

HeuristicClassification(c) ==
    Classification(_infer_format_heuristic(c), "Unknown",
                   HeuristicAgent(_infer_format_heuristic(c)))

(***************************************************************************)
(* tenacity @retry policy of the three decorated calls.                    *)
(***************************************************************************)
\* stop_after_attempt(3)
MaxAttempts == 3

\* wait_exponential(multiplier=1, min=1, max=5) of the two action calls
ActionWaitMax == 5

\* wait_exponential(multiplier=1, min=1, max=10) of generate_content
GeminiWaitMax == 10

WaitMultiplier == 1

WaitMin == 1

Max2(a, b) == IF a >= b THEN a ELSE b

Min2(a, b) == IF a <= b THEN a ELSE b

\* seconds slept after the attempt_number-th failed attempt:
\* max(min, min(multiplier * 2^(attempt_number - 1), max))
wait_exponential(attempt_number, wmax) ==
    Max2(WaitMin, Min2(WaitMultiplier * 2^(attempt_number - 1), wmax))

\* What one execution of a decorated function body can end in.  The failures
\* are the httpx exception classes the code distinguishes:
\*   network    httpx.NetworkError (ConnectError, ReadError, ...): refused,
\*              reset, DNS failure
\*   timeout    httpx.TimeoutException (ConnectTimeout, ReadTimeout, ...)
\*   protocol   httpx.RemoteProtocolError
\*   transport  any other httpx.RequestError (ProxyError, DecodingError,
\*              TooManyRedirects, UnsupportedProtocol, LocalProtocolError)
\*   http       httpx.HTTPStatusError raised by raise_for_status (4xx/5xx)
\*   other      any other Exception
Failures == {"network", "timeout", "protocol", "transport", "http", "other"}

\* except (httpx.RequestError, httpx.HTTPStatusError): raise e  -- a body
\* that lets the error response leave it as well
RequestErrors_with_http == {"network", "timeout", "protocol", "transport", "http"}

\* except httpx.RequestError: raise e  -- these leave the function body
RequestErrors == {"network", "timeout", "protocol", "transport"}

\* retry=... of GeminiAPI.generate_content
gemini_retry_if(exc) == exc \in {"network", "timeout", "protocol"}

\* retry=... of ActionRouter._simulate_crm_escalate / _simulate_risk_alert
action_retry_if(exc) == exc \in {"network", "timeout"}

\* A call in progress or finished:
\*   site     which decorated function
\*   att      attempts made so far
\*   waits    the sleeps between them
\*   last     how the last attempt made ended: "ok" or its failure
\*   res      "running", "returned" or what the call raised
\*            ("RetryError" = tenacity gave up, else the exception itself)
NoCall == [site |-> "none", att |-> 0, waits |-> << >>, last |-> "none",
           res |-> "none"]

NewCall(site) == [site |-> site, att |-> 0, waits |-> << >>, last |-> "none",
                  res |-> "running"]

RetryIf(site, exc) ==
    IF site = "gemini" THEN gemini_retry_if(exc) ELSE action_retry_if(exc)

WaitMax(site) == IF site = "gemini" THEN GeminiWaitMax ELSE ActionWaitMax

\* stop=stop_after_attempt(4): one attempt more
stop_after_attempt_4(att) == att >= MaxAttempts + 1

\* stop=stop_after_attempt(3)
stop_after_attempt(att) == att >= MaxAttempts

\* the body raised exc on this attempt: does tenacity sleep and call again?
Retries(c, exc) ==
    /\ exc \in RequestErrors
    /\ RetryIf(c.site, exc)
    /\ ~stop_after_attempt(c.att + 1)

\* the call after an attempt that raised exc and is followed by a sleep
AfterRetry(c, exc) ==
    [c EXCEPT !.att = c.att + 1,
              !.last = exc,
              !.waits = Append(c.waits, wait_exponential(c.att + 1, WaitMax(c.site)))]

\* the call after its last attempt, which raised exc out of the body
AfterRaise(c, exc) ==
    [c EXCEPT !.att = c.att + 1,
              !.last = exc,
              !.res = IF RetryIf(c.site, exc) THEN "RetryError" ELSE exc]

\* the call after its last attempt, whose body returned a value: after the
\* request succeeded (how = "ok") or after a failure the body swallows
AfterReturn(c, how) ==
    [c EXCEPT !.att = c.att + 1, !.last = how, !.res = "returned"]

(***************************************************************************)
(* GeminiAPI.generate_content: what the body returns.                      *)
(***************************************************************************)
\* A value returned by generate_content:
\*   t    its Python type: "dict", "str", "list" (any other type) or "none"
\*   d    the dict when t = "dict"; when t = "str" and lt = "dict", the dict
\*        that json.loads of the string yields
\*   lt   when t = "str", what json.loads of the string yields: "error"
\*        (JSONDecodeError), "dict", or "scalar" (a list, number, string or
\*        null); "n/a" otherwise
JValue(t, d, lt) == [t |-> t, d |-> d, lt |-> lt]

\* the dict with none of the keys the caller looks for
NoKeysClassification == Classification(ABSENT, ABSENT, ABSENT)

\* return None: no candidate text, HTTPStatusError, or any other Exception
ReturnsNone == JValue("none", NoKeysClassification, "n/a")

\* dicts the capability can answer a classification prompt with: each key
\* missing, in its enumeration, or outside it
ClassifierDicts ==
    { Classification(f, i, a) :
        f \in FormatEnum \cup {Bogus, ABSENT},
        i \in IntentEnum \cup {Bogus, ABSENT},
        a \in AgentEnum \cup {Bogus, ABSENT} }

ClassifierValues(Dicts) ==
    { JValue("dict", d, "n/a") : d \in Dicts }
    \cup { JValue("str", d, "dict") : d \in Dicts }
    \cup { JValue("str", NoKeysClassification, lt) : lt \in {"error", "scalar"} }
    \cup { JValue("list", NoKeysClassification, "n/a"), ReturnsNone }

(***************************************************************************)
(* ClassifierAgent.classify, from the result of generate_content on.       *)
(***************************************************************************)
DefaultClassification == Classification("Unknown", "Unknown", "UnknownAgent")

\* the dict taken as it is, without the enum checks
CoerceClassification_unchecked(d) ==
    Classification(d.format, d.intent, d.routed_agent)

\* the enum checks of lines 189-197
CoerceClassification(d) ==
    Classification(IF d.format \in FormatEnum THEN d.format ELSE "Unknown",
                   IF d.intent \in IntentEnum THEN d.intent ELSE "Unknown",
                   IF d.routed_agent \in AgentEnum THEN d.routed_agent
                                                   ELSE "UnknownAgent")

\* all(k in classification for k in ["format", "intent", "routed_agent"])
HasRequiredKeys(d) ==
    /\ d.format # ABSENT
    /\ d.intent # ABSENT
    /\ d.routed_agent # ABSENT

\* the object bound to `classification` after the isinstance chain:
\* "dict" with the dict, or "scalar" for a json.loads result that is no dict
ParsedCandidate(v) ==
    IF v.t = "dict" THEN [t |-> "dict", d |-> v.d]
    ELSE IF v.t = "str" THEN
        IF v.lt = "error" THEN [t |-> "dict", d |-> DefaultClassification]
        ELSE IF v.lt = "dict" THEN [t |-> "dict", d |-> v.d]
        ELSE [t |-> "scalar", d |-> NoKeysClassification]
    ELSE [t |-> "dict", d |-> DefaultClassification]

\* the exception the try block ends in, "none" when it runs through:
\* what generate_content raised, TypeError for a candidate that is no dict,
\* ValueError("LLM output missing required keys.")
classify_try(call, v) ==
    IF call.res # "returned" THEN call.res
    ELSE IF ParsedCandidate(v).t # "dict" THEN "TypeError"
    ELSE IF ~HasRequiredKeys(ParsedCandidate(v).d) THEN "ValueError"
    ELSE "none"

\* subclasses of Exception that can arise in the pipeline
Exceptions ==
    {"RetryError", "ValueError", "TypeError", "AttributeError",
     "ValidationError"} \cup Failures

\* except ValueError as e: a narrower except clause
classify_except_ValueError(exc) == exc = "ValueError"

\* except Exception as e
classify_except(exc) == exc \in Exceptions

\* Result of a function: the exception that leaves it ("none" when it
\* returns) and the value it returns
Result(raised, value) == [raised |-> raised, value |-> value]

\* classify(input_type, input_content) given how the call to generate_content
\* ended: call.res = "returned" with value v, or an exception
classify(content, call, v) ==
    LET exc == classify_try(call, v) IN
    IF exc = "none" THEN Result("none", CoerceClassification(ParsedCandidate(v).d))
    ELSE IF classify_except(exc) THEN Result("none", HeuristicClassification(content))
    ELSE Result(exc, DefaultClassification)

(***************************************************************************)
(* SharedMemory: the interactions table.                                   *)
(***************************************************************************)
\* One row.  run is the request that wrote it (not a column; it names the
\* row's origin), source is input_metadata.source_type, agent / extracted /
\* chained are the agent_outputs column, final is the chained_actions column,
\* seen is the intent the extractor read from the table, which the
\* decision_traces column records with the extractor's output.
InteractionRecord(id, run, source, classification, agent, extracted, chained, final, seen) ==
    [id |-> id, run |-> run, source |-> source,
     classification |-> classification,
     agent |-> agent, extracted |-> extracted, chained |-> chained,
     final |-> final, seen |-> seen]

\* DELETE FROM interactions before the INSERT: a table that keeps the last
\* record only
write_interaction_overwrite(rows, lastid, run, source, classification, agent, extracted, chained, final, seen) ==
    { InteractionRecord(lastid + 1, run, source, classification,
                        agent, extracted, chained, final, seen) }

\* INSERT INTO interactions ...; commit -- id INTEGER PRIMARY KEY AUTOINCREMENT
write_interaction(rows, lastid, run, source, classification, agent, extracted, chained, final, seen) ==
    rows \cup { InteractionRecord(lastid + 1, run, source, classification,
                                  agent, extracted, chained, final, seen) }

\* SELECT * FROM interactions ORDER BY id DESC LIMIT 1
\* the row ORDER BY id ASC LIMIT 1 would give
OldestRow(rows) == CHOOSE x \in rows : \A y \in rows : x.id <= y.id

\* SELECT * FROM interactions ORDER BY id DESC LIMIT 1, on a table with rows
LatestRow(rows) == CHOOSE x \in rows : \A y \in rows : y.id <= x.id

\* a lookup that answers an empty table with a default intent
LatestIntent_default_invoice(rows) ==
    IF rows = {} THEN "Invoice" ELSE LatestRow(rows).classification.intent

\* read_latest_interaction().get("classification", {}).get("intent")
LatestIntent(rows) ==
    IF rows = {} THEN None ELSE LatestRow(rows).classification.intent

(***************************************************************************)
(* What an extractor returns.                                              *)
(***************************************************************************)
\* action_trigger_data, by the keys trigger_final_action reads (plus tone);
\* ABSENT = the key is not there.  invoice_total holds .get("invoice_total", 0)
\* and compliance_keywords the truth value of .get("compliance_keywords").
TriggerData(intent, urgency, tone, risk_level, invoice_total, compliance_keywords) ==
    [intent |-> intent, urgency |-> urgency, tone |-> tone,
     risk_level |-> risk_level, invoice_total |-> invoice_total,
     compliance_keywords |-> compliance_keywords, chained_action |-> ABSENT]

EmptyTriggerData == TriggerData(ABSENT, ABSENT, ABSENT, ABSENT, 0, FALSE)

\* agent_output_data:
\*   extracted   "empty" ({}), "dict" (a non-empty dict) or "nondict"
\*   chained     the chained_action value, None, or ABSENT when there is no
\*               such key (no agent ran)
\*   atd         action_trigger_data, EmptyTriggerData when the key is missing
AgentOutputData(extracted, chained, atd) ==
    [extracted |-> extracted, chained |-> chained, atd |-> atd]

\* agent_output_data = {}
NoAgentOutput == AgentOutputData("empty", ABSENT, EmptyTriggerData)

ExtractedOf(content) == IF content.kind = "dict" THEN "dict" ELSE "nondict"

(***************************************************************************)
(* JSONAgent.                                                              *)
(***************************************************************************)
\* self.required_schemas.get(intent)
HasSchema(intent) == intent \in {"RFQ", "Fraud Risk", "Invoice"}

\* _validate_json_schema(data, intent) returns a non-empty list
ValidationErrors(content, intent) ==
    \/ ~HasSchema(intent)
    \/ content.kind # "dict"
    \/ /\ intent = "Fraud Risk"
       /\ content.payload \notin {"Fraud Risk", "Fraud Risk high"}
    \/ /\ intent \in {"RFQ", "Invoice"}
       /\ content.payload # intent

\* process_input(input_content), reading the table `rows`
JSONAgent_process_input(content, rows) ==
    LET classification_intent == LatestIntent(rows) IN
    IF classification_intent = None
    THEN AgentOutputData(ExtractedOf(content), "Log Anomaly", EmptyTriggerData)
    ELSE IF ValidationErrors(content, classification_intent)
    THEN AgentOutputData(ExtractedOf(content), "Log Anomaly",
             TriggerData(classification_intent, ABSENT, ABSENT, ABSENT, 0, FALSE))
    ELSE IF classification_intent = "Fraud Risk" /\ content.payload = "Fraud Risk high"
    THEN AgentOutputData(ExtractedOf(content), "Flag Fraud Risk",
             TriggerData(classification_intent, ABSENT, ABSENT, "High", 0, FALSE))
    ELSE AgentOutputData(ExtractedOf(content), "Process JSON Data",
             TriggerData(classification_intent, ABSENT, ABSENT, ABSENT, 0, FALSE))

(***************************************************************************)
(* PDFAgent.                                                               *)
(***************************************************************************)
\* invoice_data.get("total_amount", 0) > 10000
HighValueThreshold == 10000

\* float(...) of the Total the invoice regular expression finds: 12500.0 for
\* "Total: $12,500.00", and a total of exactly 10000
HighTotal == HighValueThreshold + 2500

LowTotal == HighValueThreshold

ParsedTotal(content) ==
    IF content.doc = "invoice_high" THEN HighTotal
    ELSE IF content.doc = "invoice_low" THEN LowTotal
    ELSE 0

\* os.path.exists(pdf_path) raises TypeError for a dict or a list
PDFAgent_raises(content) == content.kind # "str"

\* process_input(input_content), reading the table `rows`
PDFAgent_process_input(content, rows) ==
    LET classification_intent == LatestIntent(rows) IN
    IF ~content.exists \/ content.ext # "pdf"
    THEN AgentOutputData("empty", "Log Error", EmptyTriggerData)
    ELSE IF content.doc = "unreadable"
    THEN AgentOutputData("dict", "Review PDF Manually", EmptyTriggerData)
    ELSE IF classification_intent = "Invoice"
    THEN IF ParsedTotal(content) > HighValueThreshold
         THEN AgentOutputData("dict", "Flag High Value Invoice",
                  TriggerData(ABSENT, ABSENT, ABSENT, ABSENT, ParsedTotal(content), FALSE))
         ELSE AgentOutputData("dict", "Process Invoice", EmptyTriggerData)
    ELSE IF classification_intent = "Regulation"
    THEN IF content.doc = "policy_hit"
         THEN AgentOutputData("dict", "Flag Compliance Risk",
                  TriggerData(ABSENT, ABSENT, ABSENT, ABSENT, 0, TRUE))
         ELSE AgentOutputData("dict", "Process Policy Document", EmptyTriggerData)
    ELSE AgentOutputData("dict", "Review PDF Manually", EmptyTriggerData)

(***************************************************************************)
(* EmailAgent.                                                             *)
(***************************************************************************)
UrgencyEnum == {"Low", "Medium", "High", "Critical", "Unknown"}

ToneEnum == {"Polite", "Neutral", "Escalation", "Threatening", "Query", "Unknown"}

EmailFields(urgency, tone) == [urgency |-> urgency, tone |-> tone]

NoKeysEmail == EmailFields(ABSENT, ABSENT)

EmailReturnsNone == JValue("none", NoKeysEmail, "n/a")

\* dicts the capability can answer an extraction prompt with
EmailDicts ==
    { EmailFields(u, t) : u \in UrgencyEnum \cup {Bogus, ABSENT},
                          t \in ToneEnum \cup {Bogus, ABSENT} }

EmailValues(Dicts) ==
    { JValue("dict", d, "n/a") : d \in Dicts }
    \cup { JValue("str", d, "dict") : d \in Dicts }
    \cup { JValue("str", NoKeysEmail, lt) : lt \in {"error", "scalar"} }
    \cup { JValue("list", NoKeysEmail, "n/a"), EmailReturnsNone }

\* isinstance(input_content, str) fails: the early return of line 95
EmailAgent_invalid_input ==
    AgentOutputData("empty", None, EmptyTriggerData)

\* extracted_data.get(key, "Unknown")
GetOrUnknown(x) == IF x = ABSENT THEN "Unknown" ELSE x

\* the if / else without the elif on tone "Threatening"
EmailDecision_without_threatening(urgency, tone) ==
    IF tone = "Escalation" \/ urgency \in {"High", "Critical"}
    THEN "Escalate to CRM"
    ELSE "Log and Close"

\* the if / elif / else on tone and urgency
EmailDecision(urgency, tone) ==
    IF tone = "Escalation" \/ urgency \in {"High", "Critical"}
    THEN "Escalate to CRM"
    ELSE IF tone = "Threatening" THEN "Flag Risk and Escalate"
    ELSE "Log and Close"

\* the action_trigger_data initialised before the call
EmailInitialTriggerData(intent) ==
    TriggerData(intent, "Unknown", "Unknown", ABSENT, 0, FALSE)

\* the exception the try block ends in, "none" when it runs through: what
\* generate_content raised, or AttributeError when extracted_data is no dict
\* and has no .get
EmailAgent_try(call, v) ==
    IF call.res # "returned" THEN call.res
    ELSE IF v.t = "str" /\ v.lt = "scalar" THEN "AttributeError"
    ELSE "none"

\* except httpx.RequestError as e: a narrower except clause
EmailAgent_except_transport(exc) == exc \in RequestErrors

\* except Exception as e
EmailAgent_except(exc) == exc \in Exceptions

\* extracted_data when the except clause returns: still {} when the call
\* raised, the json.loads result otherwise
EmailExtractedOnError(call) ==
    IF call.res # "returned" THEN "empty" ELSE "nondict"

\* process_input from `await self.gemini_api.generate_content` on, given how
\* the call ended (value v when it returned) and the intent looked up before
EmailAgent_after_call(call, v, intent) ==
    LET exc == EmailAgent_try(call, v)
        isDict == v.t = "dict" \/ (v.t = "str" /\ v.lt = "dict")
        urgency == IF isDict THEN GetOrUnknown(v.d.urgency) ELSE "Unknown"
        tone == IF isDict THEN GetOrUnknown(v.d.tone) ELSE "Unknown"
    IN
    IF exc = "none"
    THEN Result("none",
             AgentOutputData(IF isDict THEN "dict" ELSE "empty",
                             EmailDecision(urgency, tone),
                             TriggerData(intent, urgency, tone, ABSENT, 0, FALSE)))
    ELSE IF EmailAgent_except(exc)
    THEN Result("none",
             AgentOutputData(EmailExtractedOnError(call), None,
                             EmailInitialTriggerData(intent)))
    ELSE Result(exc, NoAgentOutput)

(***************************************************************************)
(* ActionRouter.trigger_final_action.                                      *)
(***************************************************************************)
\* action_trigger_data.get("invoice_total", 0) > 10000
RouterInvoiceThreshold == 10000

Action(kind, type) == [kind |-> kind, type |-> type]

RoutineActions ==
    {"Log and Close", "Process JSON Data", "Process Invoice",
     "Process Policy Document", "Review PDF Manually"}

\* trigger_final_action with the two strategies in the other order: the
\* intent-based rules first, the table of recommended actions after them
trigger_final_action_intent_first(intent, data) ==
    LET rec == data.chained_action IN
    IF intent = "Complaint" /\ data.urgency \in {"High", "Critical"}
    THEN Action("crm", "Classifier-driven Complaint Escalation")
    ELSE IF intent = "Fraud Risk" /\ data.risk_level = "High"
    THEN Action("risk", "Classifier-driven Fraud Risk Detected")
    ELSE IF intent = "Invoice" /\ data.invoice_total > RouterInvoiceThreshold
    THEN Action("risk", "Classifier-driven High Value Invoice Alert")
    ELSE IF intent = "Regulation" /\ data.compliance_keywords
    THEN Action("risk", "Classifier-driven Compliance Risk Flagged")
    ELSE IF rec = "Escalate to CRM"
    THEN Action("crm", "Specialized Agent Escalation (CRM)")
    ELSE IF rec \in {"Flag Risk and Escalate", "Flag High Value Invoice",
                     "Flag Compliance Risk"}
    THEN Action("risk", "Specialized Agent Risk Flag (Escalate)")
    ELSE Action("log", "Routine Processed")

\* trigger_final_action without Strategy 2: the table, then the default
trigger_final_action_no_fallback(intent, data) ==
    LET rec == data.chained_action IN
    IF rec = "Escalate to CRM"
    THEN Action("crm", "Specialized Agent Escalation (CRM)")
    ELSE IF rec = "Flag Risk and Escalate"
    THEN Action("risk", "Specialized Agent Risk Flag (Escalate)")
    ELSE IF rec = "Log Anomaly"
    THEN Action("log", "Anomaly Logged")
    ELSE IF rec = "Flag High Value Invoice"
    THEN Action("risk", "High Value Invoice Alert")
    ELSE IF rec = "Flag Compliance Risk"
    THEN Action("risk", "Compliance Risk Flagged")
    ELSE IF rec \in RoutineActions
    THEN Action("log", "Routine Processed")
    ELSE Action("log", "Routine Processing (Default)")

\* the if / elif chain: which call is made, and the "type" it is given
trigger_final_action(intent, data) ==
    LET rec == data.chained_action IN
    IF rec = "Escalate to CRM"
    THEN Action("crm", "Specialized Agent Escalation (CRM)")
    ELSE IF rec = "Flag Risk and Escalate"
    THEN Action("risk", "Specialized Agent Risk Flag (Escalate)")
    ELSE IF rec = "Log Anomaly"
    THEN Action("log", "Anomaly Logged")
    ELSE IF rec = "Flag High Value Invoice"
    THEN Action("risk", "High Value Invoice Alert")
    ELSE IF rec = "Flag Compliance Risk"
    THEN Action("risk", "Compliance Risk Flagged")
    ELSE IF rec \in RoutineActions
    THEN Action("log", "Routine Processed")
    ELSE IF intent = "Complaint" /\ data.urgency \in {"High", "Critical"}
    THEN Action("crm", "Classifier-driven Complaint Escalation")
    ELSE IF intent = "Fraud Risk" /\ data.risk_level = "High"
    THEN Action("risk", "Classifier-driven Fraud Risk Detected")
    ELSE IF intent = "Invoice" /\ data.invoice_total > RouterInvoiceThreshold
    THEN Action("risk", "Classifier-driven High Value Invoice Alert")
    ELSE IF intent = "Regulation" /\ data.compliance_keywords
    THEN Action("risk", "Classifier-driven Compliance Risk Flagged")
    ELSE Action("log", "Routine Processing (Default)")

\* main.py: action_data_for_router, with the chained_action key copied in
action_data_for_router(out) ==
    IF out.chained = ABSENT THEN out.atd
    ELSE [out.atd EXCEPT !.chained_action = out.chained]

\* AgentOutput(extracted_data=...) rejects a value that is not a dict
AgentOutput_raises(out) == out.extracted = "nondict"

(***************************************************************************)
(* The table when the process starts: shared_memory.db outlives the        *)
(* process, so it holds the rows earlier processes wrote (run 0).          *)
(***************************************************************************)
\* most rows found at start
MaxOld == 2

\* the intent of the row an earlier process wrote with the given id
OldIntent(id) == IF id % 2 = 1 THEN "Complaint" ELSE "Fraud Risk"

OldRow(id) ==
    InteractionRecord(id, 0, "email_text",
        Classification("Unknown", OldIntent(id), "UnknownAgent"),
        "UnknownAgent", "empty", ABSENT, "ok", "n/a")

OldStores == { { OldRow(id) : id \in 1..n } : n \in 0..MaxOld }

(***************************************************************************)
(* State.                                                                  *)
(***************************************************************************)
VARIABLES
    run,      \* run[r]: the locals of request r in upload_input
    store,    \* rows of the interactions table
    lastId,   \* sqlite_sequence of the interactions table
    files     \* files[n]: what UPLOAD_DIR holds under the name n

vars == <<run, store, lastId, files>>

\* an exception that left upload_input: where it was raised, and which
Error(at, exc) == [at |-> at, exc |-> exc]

NoError == Error("none", "none")

NoClassification == Classification(ABSENT, ABSENT, ABSENT)

NoAction == Action("none", "none")

\* The locals of a request:
\*   pc      where it is in upload_input
\*   inp     (input_type, input_content)
\*   call    the decorated call it is in, or the last one it made
\*   raw     raw_gemini_output of the classify call that just returned
\*   cls     classification_result
\*   lookup  classification_intent the extractor read from the table
\*   out     agent_output_data
\*   act     the branch trigger_final_action took
\*   final   final_action_triggered ("ok" / "failed" status string)
\*   err     the exception that left upload_input
Locals(p, e) ==
    [pc |-> p, inp |-> NoInput, call |-> NoCall, raw |-> ReturnsNone,
     cls |-> NoClassification, lookup |-> "n/a", out |-> NoAgentOutput,
     act |-> NoAction, final |-> "none", err |-> e]

\* A request is suspended in an await when idle, before its body was read,
\* and inside one of the decorated calls.  Between two of them upload_input
\* runs without yielding the event loop of uvicorn.run(app): the JSON and
\* PDF agents and the sqlite calls are synchronous.  These are the positions
\* inside such a synchronous stretch.
SyncPcs == {"route", "resolve", "persist"}

\* uploaded files have names of their own
FileNames == {"a.pdf", "b.pdf"}

\* UPLOAD_DIR when the process starts
NoFiles == [n \in FileNames |-> "absent"]

\* Only SpecFiles follows UPLOAD_DIR; the other specifications take what a
\* request finds under its own path from the `exists` and `doc` features of
\* its content.
Init ==
    /\ run = [r \in Runs |-> Locals("idle", NoError)]
    /\ store \in OldStores
    /\ lastId = Cardinality(store)
    /\ files = NoFiles

(***************************************************************************)
(* The stages of upload_input, as functions of the locals l of a request   *)
(* and of the table.                                                       *)
(***************************************************************************)
\* the request leaves upload_input by an exception
Raise(at, exc) == Locals("aborted", Error(at, exc))

\* the ways the last attempt of call c can end: <<call afterwards, value>>.
\* Fails are the failures the remote side shows, Values what it answers;
\* the body returns none for the failures it swallows
CallEnds(c, Values, none, Fails) ==
    { <<AfterRaise(c, e), none>> :
        e \in { x \in Fails \cap RequestErrors : ~Retries(c, x) } }
    \cup { <<AfterReturn(c, e), none>> : e \in Fails \ RequestErrors }
    \cup { <<AfterReturn(c, "ok"), v>> : v \in Values }

\* classify as it was before the write_interaction call was removed from it:
\* it writes the classification as a row of its own
classify_memory_writes(rows, lastid, r, source, classification) ==
    write_interaction(rows, lastid, r, source, classification,
                      classification.routed_agent, "empty", ABSENT, "none", "n/a")

\* classify writes nothing to the table (the write_interaction call was
\* removed from it)
classify_memory(rows, lastid, r, source, classification) == rows

\* Stage 1: classifier_agent.classify returns, its call having ended as e
AfterClassify(l, e) ==
    LET res == classify(l.inp.content, e[1], e[2]) IN
    IF res.raised = "none"
    THEN [l EXCEPT !.call = e[1], !.raw = e[2], !.cls = res.value, !.pc = "route"]
    ELSE Raise("classify", res.raised)

\* the PDF agent reaches its read_latest_interaction call
PDFAgent_reads(content) ==
    content.exists /\ content.ext = "pdf" /\ content.doc # "unreadable"

\* Stage 2 without the if / elif: every run is handed to the JSON agent
Extract_json_always(l, rows) ==
    [l EXCEPT !.lookup = LatestIntent(rows), !.raw = ReturnsNone,
              !.out = JSONAgent_process_input(l.inp.content, rows),
              !.call = NoCall, !.pc = "resolve"]

\* Stage 2: the if / elif on routed_agent_name, up to the return of a
\* synchronous extractor or to the Gemini call of the email extractor
Extract(l, rows) ==
    LET content == l.inp.content IN
    IF l.cls.routed_agent = "EmailAgent"
    THEN IF content.kind # "str"
         THEN [l EXCEPT !.out = EmailAgent_invalid_input, !.call = NoCall,
                        !.raw = ReturnsNone, !.pc = "resolve"]
         ELSE [l EXCEPT !.lookup = LatestIntent(rows), !.raw = ReturnsNone,
                        !.call = NewCall("gemini"), !.pc = "email"]
    ELSE IF l.cls.routed_agent = "JSONAgent"
    THEN [l EXCEPT !.lookup = LatestIntent(rows), !.raw = ReturnsNone,
                   !.out = JSONAgent_process_input(content, rows),
                   !.call = NoCall, !.pc = "resolve"]
    ELSE IF l.cls.routed_agent = "PDFAgent"
    THEN IF PDFAgent_raises(content)
         THEN Raise("extract", "TypeError")
         ELSE [l EXCEPT !.lookup = IF PDFAgent_reads(content)
                                   THEN LatestIntent(rows) ELSE "n/a",
                        !.out = PDFAgent_process_input(content, rows),
                        !.raw = ReturnsNone, !.call = NoCall, !.pc = "resolve"]
    ELSE [l EXCEPT !.out = NoAgentOutput, !.raw = ReturnsNone,
                   !.call = NoCall, !.pc = "resolve"]

\* the Gemini call of email_agent.process_input ended as e
AfterEmail(l, e) ==
    LET res == EmailAgent_after_call(e[1], e[2], l.lookup) IN
    IF res.raised = "none"
    THEN [l EXCEPT !.call = e[1], !.out = res.value, !.pc = "resolve"]
    ELSE Raise("extract", res.raised)

\* Stage 3: main.py builds AgentOutput and calls trigger_final_action, which
\* takes its branch; _simulate_log_and_close returns at once
Resolve(l) ==
    IF AgentOutput_raises(l.out)
    THEN Raise("assemble", "ValidationError")
    ELSE LET a == trigger_final_action(l.cls.intent, action_data_for_router(l.out)) IN
         IF a.kind = "log"
         THEN [l EXCEPT !.act = a, !.final = "ok", !.pc = "persist"]
         ELSE [l EXCEPT !.act = a, !.call = NewCall(a.kind), !.pc = "action"]

\* trigger_final_action has no try: what the call raises leaves it
trigger_final_action_except(exc) == FALSE

\* _simulate_crm_escalate / _simulate_risk_alert ended as e.  The body stands
\* for the HTTP POST to the CRM or risk-alert system; it returns a failure
\* status string for HTTPStatusError and for any other Exception.
AfterAction(l, e) ==
    IF e[1].res = "returned"
    THEN [l EXCEPT !.call = e[1], !.final = e[2], !.pc = "persist"]
    ELSE IF trigger_final_action_except(e[1].res)
    THEN [l EXCEPT !.call = e[1], !.final = "failed", !.pc = "persist"]
    ELSE [Raise("action", e[1].res) EXCEPT !.call = e[1]]

\* Stage 4: memory.write_interaction(...) of upload_input
PersistRows(l, rows, lastid, r) ==
    write_interaction(rows, lastid, r, l.inp.input_type, l.cls,
                      l.cls.routed_agent, l.out.extracted, l.out.chained,
                      l.final, l.lookup)

\* upload_input with the write placed before trigger_final_action: after
\* the write the run goes on to a side-effect call
Return_before_action(l) ==
    [l EXCEPT !.pc = "action", !.call = NewCall("risk")]

\* upload_input returns processing_results
Return(l) == Locals("done", NoError)

\* One stage: the locals and the table after the stage at l.pc
StageLocals(l, rows) ==
    CASE l.pc = "route"   -> Extract(l, rows)
      [] l.pc = "resolve" -> Resolve(l)
      [] l.pc = "persist" -> Return(l)
      [] OTHER            -> l

StageRows(l, rows, lastid, r) ==
    IF l.pc = "persist" THEN PersistRows(l, rows, lastid, r) ELSE rows

\* upload_input from l on, until it awaits a call or ends: at most the
\* three stages route, resolve, persist
RECURSIVE SyncLocals(_, _, _)
SyncLocals(l, rows, n) ==
    IF n = 0 \/ l.pc \notin SyncPcs THEN l
    ELSE SyncLocals(StageLocals(l, rows), rows, n - 1)

RECURSIVE SyncRows(_, _, _, _, _)
SyncRows(l, rows, lastid, r, n) ==
    IF n = 0 \/ l.pc \notin SyncPcs THEN rows
    ELSE SyncRows(StageLocals(l, rows), StageRows(l, rows, lastid, r),
                  lastid + Cardinality(StageRows(l, rows, lastid, r) \ rows),
                  r, n - 1)

\* the number of synchronous stages
Stages == Cardinality(SyncPcs)

(***************************************************************************)
(* Actions.                                                                *)
(***************************************************************************)
\* request r goes on from locals l and table rows until it awaits or ends
Continue(r, l, rows) ==
    /\ run' = [run EXCEPT ![r] = SyncLocals(l, rows, Stages)]
    /\ store' = SyncRows(l, rows, lastId + Cardinality(rows \ store), r, Stages)
    /\ lastId' = lastId + Cardinality(store' \ store)
    /\ UNCHANGED files

\* request r takes one stage only
Step(r, l, rows) ==
    /\ run' = [run EXCEPT ![r] = l]
    /\ store' = rows
    /\ lastId' = lastId + Cardinality(store' \ store)
    /\ UNCHANGED files

\* a request with a supported file, raw_text or parsable json_data: input
\* validation passes and classify awaits generate_content
Receive(r, Ins) ==
    /\ run[r].pc = "idle"
    /\ \E i \in Ins :
        run' = [run EXCEPT ![r] = [@ EXCEPT !.inp = i, !.pc = "classify",
                                            !.call = NewCall("gemini")]]
    /\ UNCHANGED <<store, lastId, files>>

\* HTTPException(400): unsupported file type, invalid JSON, or no input
InvalidRequests == {"unsupported file type", "invalid JSON", "no input"}

\* a refusal that leaves a row in the table for the refused request
upload_input_rejects_logged(rows, lastid, r, q) ==
    write_interaction(rows, lastid, r, q, NoClassification, "UnknownAgent",
                      "empty", ABSENT, "none", "n/a")

\* the table after upload_input refused request r for reason q: the
\* HTTPException is raised before any agent or the memory is called
upload_input_rejects(rows, lastid, r, q) == rows

Reject(r) ==
    /\ run[r].pc = "idle"
    /\ \E q \in InvalidRequests :
        Step(r, Locals("rejected", Error("validation", q)),
             upload_input_rejects(store, lastId, r, q))

\* an attempt of the call r is in raised a failure that tenacity retries:
\* sleep, call again
CallRetry(r, where, Fails) ==
    /\ run[r].pc = where
    /\ run[r].call.res = "running"
    /\ \E e \in Fails \cap RequestErrors :
        /\ Retries(run[r].call, e)
        /\ run' = [run EXCEPT ![r].call = AfterRetry(run[r].call, e)]
    /\ UNCHANGED <<store, lastId, files>>

ClassifyRetry(r, Fails) == CallRetry(r, "classify", Fails)

EmailRetry(r, Fails) == CallRetry(r, "email", Fails)

ActionRetry(r, Fails) == CallRetry(r, "action", Fails)

\* the Gemini call of classify ends, and upload_input runs on
ClassifyFinish(r, Values, Fails) ==
    /\ run[r].pc = "classify"
    /\ run[r].call.res = "running"
    /\ \E e \in CallEnds(run[r].call, Values, ReturnsNone, Fails) :
        LET l == AfterClassify(run[r], e) IN
        Continue(r, l, IF l.pc = "route"
                       THEN classify_memory(store, lastId, r,
                                            run[r].inp.input_type, l.cls)
                       ELSE store)

\* the Gemini call of EmailAgent.process_input ends, and upload_input runs on
EmailFinish(r, Values, Fails) ==
    /\ run[r].pc = "email"
    /\ run[r].call.res = "running"
    /\ \E e \in CallEnds(run[r].call, Values, EmailReturnsNone, Fails) :
        Continue(r, AfterEmail(run[r], e), store)

\* the CRM or risk-alert call ends, and upload_input runs on
ActionFinish(r, Fails) ==
    /\ run[r].pc = "action"
    /\ run[r].call.res = "running"
    /\ \E e \in CallEnds(run[r].call, {"ok"}, "failed", Fails) :
        Continue(r, AfterAction(run[r], e), store)

(***************************************************************************)
(* Specification of the service: concurrent requests on one event loop.    *)
(***************************************************************************)
\* inputs of the concurrent pipeline: a fraud payload and an email text
\* with headers
PipelineInputs ==
    { Input("json", Content("dict", FALSE, FALSE, FALSE, FALSE, "other",
                            "Fraud Risk high", "n/a")),
      Input("email_text", Content("str", FALSE, TRUE, FALSE, FALSE, "other",
                                  "n/a", "n/a")) }

\* the capability classifies the pipeline's inputs as they are
PipelineClassifierValues(i) ==
    { JValue("dict",
             IF i.input_type = "json"
             THEN Classification("JSON", "Fraud Risk", "JSONAgent")
             ELSE Classification("Email", "Complaint", "EmailAgent"),
             "n/a") }

\* answers of the capability to the extraction prompt in the pipeline: the
\* fields, or a JSON scalar
PipelineEmailValues ==
    { JValue("dict", EmailFields("High", "Polite"), "n/a"),
      JValue("str", NoKeysEmail, "scalar") }

\* failures of the remote side in the pipeline: the connection fails
PipelineFails == {"network"}

Next ==
    \E r \in Runs :
        \/ Receive(r, PipelineInputs)
        \/ Reject(r)
        \/ ClassifyRetry(r, PipelineFails)
        \/ ClassifyFinish(r, PipelineClassifierValues(run[r].inp), PipelineFails)
        \/ EmailRetry(r, PipelineFails)
        \/ EmailFinish(r, PipelineEmailValues, PipelineFails)
        \/ ActionRetry(r, PipelineFails)
        \/ ActionFinish(r, PipelineFails)

Spec == Init /\ [][Next]_vars

(***************************************************************************)
(* Specification of the store with every operation of SharedMemory: the    *)
(* service, and a caller of clear_memory (no endpoint calls it).           *)
(***************************************************************************)
\* DELETE FROM interactions; commit.  sqlite_sequence is left as it is, so
\* AUTOINCREMENT goes on from the last id.
clear_memory(rows) == {}

ClearMemory ==
    /\ store' = clear_memory(store)
    /\ UNCHANGED <<run, lastId, files>>

NextStore == Next \/ ClearMemory

SpecStore == Init /\ [][NextStore]_vars

(***************************************************************************)
(* Specification of one request, stage by stage: request 1 alone, with     *)
(* every input, every answer and every failure.                            *)
(***************************************************************************)
\* classifier_agent.classify returns to upload_input
ClassifyReturn(r, Values, Fails) ==
    /\ run[r].pc = "classify"
    /\ run[r].call.res = "running"
    /\ \E e \in CallEnds(run[r].call, Values, ReturnsNone, Fails) :
        LET l == AfterClassify(run[r], e) IN
        Step(r, l, IF l.pc = "route"
                   THEN classify_memory(store, lastId, r,
                                        run[r].inp.input_type, l.cls)
                   ELSE store)

\* the routed extractor is called
Route(r) ==
    /\ run[r].pc = "route"
    /\ Step(r, Extract(run[r], store), store)

\* email_agent.process_input returns to upload_input
EmailReturn(r, Values, Fails) ==
    /\ run[r].pc = "email"
    /\ run[r].call.res = "running"
    /\ \E e \in CallEnds(run[r].call, Values, EmailReturnsNone, Fails) :
        Step(r, AfterEmail(run[r], e), store)

\* AgentOutput is built and trigger_final_action takes its branch
ResolveStage(r) ==
    /\ run[r].pc = "resolve"
    /\ Step(r, Resolve(run[r]), store)

\* trigger_final_action returns to upload_input, or raises
ActionReturn(r, Fails) ==
    /\ run[r].pc = "action"
    /\ run[r].call.res = "running"
    /\ \E e \in CallEnds(run[r].call, {"ok"}, "failed", Fails) :
        Step(r, AfterAction(run[r], e), store)

\* memory.write_interaction, and upload_input returns
Persist(r) ==
    /\ run[r].pc = "persist"
    /\ Step(r, Return(run[r]), PersistRows(run[r], store, lastId, r))

\* every answer of the capability to the classification prompt
RunClassifierValues == ClassifierValues(ClassifierDicts)

\* every answer of the capability to the extraction prompt
RunEmailValues == EmailValues(EmailDicts)

NextRun ==
    \/ Receive(1, AllInputs)
    \/ ClassifyRetry(1, Failures)
    \/ ClassifyReturn(1, RunClassifierValues, Failures)
    \/ Route(1)
    \/ EmailRetry(1, Failures)
    \/ EmailReturn(1, RunEmailValues, Failures)
    \/ ResolveStage(1)
    \/ ActionRetry(1, Failures)
    \/ ActionReturn(1, Failures)
    \/ Persist(1)

SpecRun == Init /\ [][NextRun]_vars

(***************************************************************************)
(* Specification of trigger_final_action alone: upload_input is about to   *)
(* call it with an intent and a trigger context drawn from every           *)
(* combination of the values it looks at.                                  *)
(***************************************************************************)
\* chained_action values: the labels of the table, two labels the extractors
\* produce that are not in it, None, and no key
ChainedActions ==
    {"Escalate to CRM", "Flag Risk and Escalate", "Log Anomaly",
     "Flag High Value Invoice", "Flag Compliance Risk"}
    \cup RoutineActions
    \cup {"Flag Fraud Risk", "Log Error", None, ABSENT}

TriggerContexts ==
    { TriggerData(ABSENT, u, ABSENT, k, t, c) :
        u \in {"High", "Critical", "Low", ABSENT}, k \in {"High", ABSENT},
        t \in {0, LowTotal, HighTotal}, c \in BOOLEAN }

InitResolve ==
    /\ \E i \in IntentEnum, ch \in ChainedActions, d \in TriggerContexts :
         run = [r \in Runs |->
                  IF r = 1
                  THEN [Locals("resolve", NoError) EXCEPT
                            !.cls = Classification("Unknown", i, "UnknownAgent"),
                            !.out = AgentOutputData("dict", ch, d)]
                  ELSE Locals("idle", NoError)]
    /\ store = {}
    /\ lastId = 0
    /\ files = NoFiles

NextResolve == ResolveStage(1)

SpecResolve == InitResolve /\ [][NextResolve]_vars

\* the same with the call the resolver makes: it succeeds, or fails in a way
\* its body turns into a status string (an error response, a non-httpx
\* exception)
ResolveCallFails == {"http", "other"}

NextResolveCall ==
    \/ ResolveStage(1)
    \/ ActionReturn(1, ResolveCallFails)

SpecResolveCall == InitResolve /\ [][NextResolveCall]_vars

(***************************************************************************)
(* C1.                                                                     *)
(***************************************************************************)
\* the resolver's table as the specification gives it: label -> action
TableAction(label) ==
    IF label = "Escalate to CRM" THEN "crm"
    ELSE IF label \in {"Flag Risk and Escalate", "Flag High Value Invoice",
                       "Flag Compliance Risk"} THEN "risk"
    ELSE IF label \in {"Log Anomaly", "Log and Close", "Process JSON Data",
                       "Process Invoice", "Process Policy Document",
                       "Review PDF Manually"} THEN "log"
    ELSE "none"

\* the "type" values only the intent-based rules and the default give
IntentRuleTypes ==
    {"Classifier-driven Complaint Escalation",
     "Classifier-driven Fraud Risk Detected",
     "Classifier-driven High Value Invoice Alert",
     "Classifier-driven Compliance Risk Flagged",
     "Routine Processing (Default)"}

\* trigger_final_action has taken its branch in request r
Resolved(r) == run[r].pc \in {"action", "persist"}

\* an intent-based rule matches the call of request r
IntentRuleMatches(r) ==
    trigger_final_action(run[r].cls.intent, run[r].out.atd).type
        # "Routine Processing (Default)"

\* C1: precedence law.  Whenever the trigger context's chained_action is a
\* label of the resolver's table, the action executed is the one the table
\* assigns to the label, for every intent and every value of the context
\* fields, and no intent-based rule is applied.
C1_Precedence ==
    \A r \in Runs :
        Resolved(r) /\ TableAction(run[r].out.chained) # "none" =>
            /\ run[r].act.kind = TableAction(run[r].out.chained)
            /\ run[r].act.type \notin IntentRuleTypes

\* C1 witness: a conflicting combination.  The extractor recommends Log and
\* Close while intent Complaint with High urgency matches the CRM rule: the
\* call logs and closes.
C1_Witness ==
    /\ Resolved(1)
    /\ run[1].out.chained = "Log and Close"
    /\ run[1].cls.intent = "Complaint"
    /\ run[1].out.atd.urgency = "High"
    /\ IntentRuleMatches(1)
    /\ run[1].act.kind = "log"

(***************************************************************************)
(* C2.                                                                     *)
(***************************************************************************)
\* the rows request r wrote
RowsOf(r, rows) == { row \in rows : row.run = r }

\* C2: in every run the intent the invoked extractor branches on, and
\* records in its action-trigger context, is the intent of the
\* classification the classifier produced in that same run.
C2_ExtractorUsesOwnIntent ==
    \A r \in Runs :
        /\ run[r].lookup # "n/a" => run[r].lookup = run[r].cls.intent
        /\ run[r].out.atd.intent # ABSENT =>
               run[r].out.atd.intent = run[r].cls.intent
        /\ \A row \in RowsOf(r, store) :
               row.seen # "n/a" => row.seen = row.classification.intent

(***************************************************************************)
(* C3.                                                                     *)
(***************************************************************************)
\* the intent an extractor of request r read from the table in this step,
\* "n/a" when it read none or the step does not show it: it is in the locals
\* of the request afterwards, or in the row the request wrote in this step
LookupInStep(r) ==
    IF run[r].lookup # "n/a" THEN "n/a"
    ELSE IF run'[r].lookup # "n/a" THEN run'[r].lookup
    ELSE IF \E row \in store' \ store : row.run = r /\ row.seen # "n/a"
    THEN (CHOOSE row \in store' \ store : row.run = r /\ row.seen # "n/a").seen
    ELSE "n/a"

\* request q has completed: it is a request of an earlier process, or
\* upload_input has returned
Completed(q) == q \notin Runs \/ run[q].pc = "done"

\* C3: an extractor's lookup returns the classification (intent) of the
\* record with the greatest id at the time of the read, which a completed
\* run wrote, never a run in flight and never its own run; it returns
\* nothing when the table is empty.
C3_LookupIsLatestCompleted ==
    [][\A r \in Runs :
         LookupInStep(r) # "n/a" =>
            IF store = {} THEN LookupInStep(r) = None
            ELSE \E row \in store :
                    /\ \A other \in store : other.id <= row.id
                    /\ LookupInStep(r) = row.classification.intent
                    /\ row.run # r
                    /\ Completed(row.run)]_vars

\* C3 witness: request 2 waits for the extraction capability holding the
\* intent of the greatest-id row, which request 1 wrote on completing, over
\* an older row with another intent.
C3_Witness ==
    /\ run[2].pc = "email"
    /\ run[1].pc = "done"
    /\ \E row \in RowsOf(1, store) :
          /\ \A other \in store : other.id <= row.id
          /\ run[2].lookup = row.classification.intent
          /\ \E old \in store : old.classification.intent # run[2].lookup

(***************************************************************************)
(* C4.                                                                     *)
(***************************************************************************)
\* the extraction capability was unavailable to request r: the call
\* EmailAgent made ended in a failure, raised or swallowed by the body
ExtractionOutage(r) ==
    /\ run[r].pc \in {"resolve", "persist"}
    /\ run[r].call.site = "gemini"
    /\ run[r].call.last \in Failures

\* C4: idempotent persistence.  A run that completes appends exactly one
\* record; a run whose extraction call failed goes on from the extractor to
\* the resolver and to the write, and appends exactly one record, whose
\* extraction fields are empty.
C4_OneRecordPerCompletedRun ==
    [][\A r \in Runs :
         /\ run[r].pc # "done" /\ run'[r].pc = "done" =>
               /\ RowsOf(r, store) = {}
               /\ Cardinality(RowsOf(r, store')) = 1
               /\ Cardinality(store' \ store) = 1
         /\ run[r].pc = "email" => run'[r].pc \in {"email", "resolve"}
         /\ ExtractionOutage(r)' => run'[r].out.extracted = "empty"
         /\ ExtractionOutage(r) /\ run'[r] # run[r] =>
               IF run[r].pc = "resolve" THEN run'[r].pc = "persist"
               ELSE /\ run'[r].pc = "done"
                    /\ \A row \in RowsOf(r, store') : row.extracted = "empty"]_vars

\* C4 witness: the extraction call failed three times with a transport
\* failure, and the run is at the write with empty extraction fields.
C4_Witness ==
    /\ ExtractionOutage(1)
    /\ run[1].pc = "persist"
    /\ run[1].call.res = "RetryError"
    /\ run[1].call.att = MaxAttempts
    /\ run[1].out.extracted = "empty"

(***************************************************************************)
(* C5.                                                                     *)
(***************************************************************************)
\* C5: no run appends more than one record, and a run that has not returned
\* (in flight, rejected, or aborted at any point up to the return of action
\* resolution) has appended none.
C5_AtMostOneRecord ==
    \A r \in Runs :
        /\ Cardinality(RowsOf(r, store)) <= 1
        /\ run[r].pc # "done" => RowsOf(r, store) = {}

\* C5 witness: request 1 aborted when its agent output was assembled, before
\* action resolution, and wrote nothing; request 2 completed with one record.
C5_Witness ==
    /\ run[1].pc = "aborted"
    /\ run[1].err.at = "assemble"
    /\ RowsOf(1, store) = {}
    /\ run[2].pc = "done"
    /\ Cardinality(RowsOf(2, store)) = 1

(***************************************************************************)
(* C6.                                                                     *)
(***************************************************************************)
\* C6: no failure after input validation ends a run without a record and a
\* structured result: no run leaves upload_input by an exception.
C6_NoAbortAfterValidation ==
    \A r \in Runs : run[r].pc # "aborted"

(***************************************************************************)
(* C7.                                                                     *)
(***************************************************************************)
\* classify has returned to request r and the extractor is not yet called
Classified(r) == run[r].pc = "route"

\* the dict the response of the capability holds, when it holds one with
\* the three keys
ParsesAsClassification(v) ==
    /\ v.t = "dict" \/ (v.t = "str" /\ v.lt = "dict")
    /\ v.d.format # ABSENT
    /\ v.d.intent # ABSENT
    /\ v.d.routed_agent # ABSENT

\* C7: every Classification classify returns has format, intent and
\* routed_agent in their enumerations, whatever the capability answered; a
\* value outside its enumeration becomes Unknown / UnknownAgent and the
\* other values are kept.
C7_ClassificationInEnums ==
    \A r \in Runs :
        Classified(r) =>
            /\ run[r].cls.format \in {"JSON", "Email", "PDF", "Unknown"}
            /\ run[r].cls.intent \in {"RFQ", "Complaint", "Invoice", "Regulation",
                                      "Fraud Risk", "Unknown"}
            /\ run[r].cls.routed_agent \in {"EmailAgent", "JSONAgent", "PDFAgent",
                                            "UnknownAgent"}
            /\ run[r].call.res = "returned" /\ ParsesAsClassification(run[r].raw) =>
                  /\ run[r].cls.format \in {run[r].raw.d.format, "Unknown"}
                  /\ run[r].cls.intent \in {run[r].raw.d.intent, "Unknown"}
                  /\ run[r].cls.routed_agent \in {run[r].raw.d.routed_agent,
                                                  "UnknownAgent"}

\* C7 witness: the capability answered with a format outside the
\* enumeration and a valid intent; the format became Unknown, the intent
\* was kept.
C7_Witness ==
    /\ Classified(1)
    /\ run[1].call.res = "returned"
    /\ run[1].raw.t = "dict"
    /\ run[1].raw.d.format = Bogus
    /\ run[1].raw.d.intent = "Complaint"
    /\ run[1].cls.format = "Unknown"
    /\ run[1].cls.intent = "Complaint"

(***************************************************************************)
(* C8.                                                                     *)
(***************************************************************************)
\* C8: whenever the call to the capability failed, or its output cannot be
\* parsed as a Classification, classify returns the heuristic
\* classification of the input.
C8_FailureGivesHeuristic ==
    \A r \in Runs :
        /\ Classified(r)
        /\ run[r].call.last \in Failures \/ ~ParsesAsClassification(run[r].raw)
        => run[r].cls = HeuristicClassification(run[r].inp.content)

(***************************************************************************)
(* C9.                                                                     *)
(***************************************************************************)
\* C9: classify never propagates an error: from the call to the capability
\* a request goes nowhere but to the return of classify, with a
\* Classification, whatever the input and however the call ended.
C9_ClassifyNeverRaises ==
    [][\A r \in Runs :
         run[r].pc = "classify" =>
            /\ run'[r].pc \in {"classify", "route"}
            /\ run'[r].pc = "route" => run'[r].cls # NoClassification]_vars

\* C9 witness: the call gave up after three transport failures, and
\* classify returned the heuristic classification of a JSON payload.
C9_Witness ==
    /\ Classified(1)
    /\ run[1].call.res = "RetryError"
    /\ run[1].inp.content.kind = "dict"
    /\ run[1].cls = Classification("JSON", "Unknown", "JSONAgent")

(***************************************************************************)
(* C10.                                                                    *)
(***************************************************************************)
\* the ceiling of the waits, by call site
Ceiling(site) == IF site = "gemini" THEN 10 ELSE 5

\* C10: retry bound.  A retry-protected call is never attempted a 4th time;
\* one whose every attempt failed with a connection failure or a timeout
\* was attempted exactly 3 times, with waits of 1 s then 2 s; the waits
\* double from 1 s, are non-decreasing and never exceed the ceiling of the
\* call site.
C10_RetryBound ==
    \A r \in Runs :
        LET c == run[r].call IN
        c.site # "none" =>
            /\ c.att <= 3
            /\ Len(c.waits) = IF c.res = "running" THEN c.att
                              ELSE c.att - 1
            /\ \A i \in 1..Len(c.waits) :
                  /\ c.waits[i] = 2^(i - 1)
                  /\ c.waits[i] <= Ceiling(c.site)
                  /\ i > 1 => c.waits[i - 1] <= c.waits[i]
            /\ c.res # "running" /\ c.last \in {"network", "timeout"} =>
                  /\ c.res = "RetryError"
                  /\ c.att = 3
                  /\ c.waits = <<1, 2>>

\* C10 witness: a CRM escalation whose three attempts all failed with a
\* connection failure ended after waits of 1 s and 2 s.
C10_Witness ==
    /\ run[1].call.site = "crm"
    /\ run[1].call.res = "RetryError"
    /\ run[1].call.last = "network"
    /\ run[1].call.att = 3
    /\ run[1].call.waits = <<1, 2>>

TransientTransport == {"network", "timeout", "protocol"}

\* C12: only a transient-transport failure triggers a retry: an attempt that
\* was followed by another one failed with such a failure.  An attempt
\* answered by an error response (4xx/5xx) is the last of its call, which
\* returns a failed outcome: no content from the capability, a failure
\* status string from the action call; answered at the first attempt, the
\* call has made exactly one attempt.
C12_RetryOnlyOnTransient ==
    \A r \in Runs :
        LET c == run[r].call IN
        c.site # "none" =>
            /\ c.res = "running" /\ c.att > 0 => c.last \in TransientTransport
            /\ c.last = "http" =>
                  /\ c.res = "returned"
                  /\ c.att = Len(c.waits) + 1
                  /\ c.waits = << >> => c.att = 1
                  /\ run[r].pc = "route" => run[r].raw = ReturnsNone
                  /\ c.site = "gemini" /\ run[r].pc = "resolve" =>
                        run[r].out.extracted = "empty"
                  /\ c.site \in {"crm", "risk"} => run[r].final = "failed"

\* C12 witness: the CRM call was answered by an error response at its first
\* attempt and returned a failure status string; the run is at its write.
C12_Witness ==
    /\ run[1].call.site = "crm"
    /\ run[1].call.last = "http"
    /\ run[1].call.att = 1
    /\ run[1].call.res = "returned"
    /\ run[1].final = "failed"
    /\ run[1].pc = "persist"

(***************************************************************************)
(* C13.                                                                    *)
(***************************************************************************)
\* the structured-data input of the fraud scenario: every field of the
\* Fraud Risk schema with its type, risk_score 0.95
FraudInput ==
    Input("json", Content("dict", FALSE, FALSE, FALSE, FALSE, "other",
                          "Fraud Risk high", "n/a"))

\* C13: fraud scenario.  A run with the fraud input whose classification has
\* intent Fraud Risk (and routes to the JSON extractor) yields no validation
\* error, chained action "Flag Fraud Risk" and a risk-alert final action,
\* whatever earlier runs wrote to the store.
C13_FraudScenario ==
    \A r \in Runs :
        /\ Resolved(r)
        /\ run[r].inp = FraudInput
        /\ run[r].cls.intent = "Fraud Risk"
        /\ run[r].cls.routed_agent = "JSONAgent"
        => /\ run[r].out.chained = "Flag Fraud Risk"
           /\ run[r].act.kind = "risk"

(***************************************************************************)
(* C14.                                                                    *)
(***************************************************************************)
\* C14: invoice scenario.  A run classified with intent Invoice (and routed
\* to the PDF extractor) whose document text contains "Total: $12,500.00"
\* parses the total as 12500.0, yields chained action "Flag High Value
\* Invoice" and ends with a risk-alert final action.
C14_InvoiceScenario ==
    \A r \in Runs :
        /\ Resolved(r)
        /\ run[r].inp.input_type = "pdf"
        /\ run[r].inp.content.doc = "invoice_high"
        /\ run[r].cls.intent = "Invoice"
        /\ run[r].cls.routed_agent = "PDFAgent"
        => /\ run[r].out.atd.invoice_total = 12500
           /\ run[r].out.chained = "Flag High Value Invoice"
           /\ run[r].act.kind = "risk"

(***************************************************************************)
(* C15.                                                                    *)
(***************************************************************************)
\* the Email extractor of request r returned with this tone derived
\* from the answer of the capability, and the resolver has taken its branch
DerivedTone(r, tone) ==
    /\ Resolved(r)
    /\ run[r].cls.routed_agent = "EmailAgent"
    /\ run[r].out.extracted = "dict"
    /\ run[r].out.atd.tone = tone

\* C15 as stated: whenever the Email extractor derives tone Threatening,
\* whatever the other extracted fields, the chained action is "Flag Risk and
\* Escalate" and the final action is a risk alert, for every intent.
C15_ThreateningAlwaysRiskAlert ==
    \A r \in Runs :
        DerivedTone(r, "Threatening") =>
            /\ run[r].out.chained = "Flag Risk and Escalate"
            /\ run[r].act.kind = "risk"

\* C15, amended: whenever the Email extractor derives tone Threatening and
\* an urgency other than High or Critical, the chained action is "Flag Risk
\* and Escalate" and the final action is a risk alert, for every classified
\* intent; with urgency High or Critical the chained action is "Escalate to
\* CRM" and the final action a CRM escalation.
C15_ThreateningScenario ==
    \A r \in Runs :
        DerivedTone(r, "Threatening") =>
            IF run[r].out.atd.urgency \in {"High", "Critical"}
            THEN /\ run[r].out.chained = "Escalate to CRM"
                 /\ run[r].act.kind = "crm"
            ELSE /\ run[r].out.chained = "Flag Risk and Escalate"
                 /\ run[r].act.kind = "risk"
                 /\ run[r].act.type = "Specialized Agent Risk Flag (Escalate)"

\* C15 witness: tone Threatening with urgency Low under intent Complaint:
\* the resolver raises the risk alert.
C15_Witness ==
    /\ DerivedTone(1, "Threatening")
    /\ run[1].out.atd.urgency = "Low"
    /\ run[1].cls.intent = "Complaint"
    /\ run[1].out.chained = "Flag Risk and Escalate"
    /\ run[1].act.kind = "risk"

(***************************************************************************)
(* C16.                                                                    *)
(***************************************************************************)
\* request r was refused at input validation
Rejected(r) == run[r].pc = "rejected"

\* C16: invalid input never starts the pipeline.  A request with no input,
\* with an unparsable structured payload or with a file of unsupported type
\* is refused straight from its arrival with an invalid-input error; no
\* classifier, extractor or resolver was invoked for it, the step leaves the
\* record store unchanged, the request has no record, and it goes no
\* further.
C16_InvalidInputNeverStarts ==
    [][\A r \in Runs :
         /\ Rejected(r)' /\ ~Rejected(r) =>
               /\ run[r].pc = "idle"
               /\ store' = store
               /\ lastId' = lastId
               /\ run'[r].err.at = "validation"
               /\ run'[r].err.exc \in {"unsupported file type", "invalid JSON",
                                       "no input"}
         /\ Rejected(r)' =>
               /\ run'[r].call = NoCall
               /\ run'[r].cls = NoClassification
               /\ run'[r].out = NoAgentOutput
               /\ run'[r].act = NoAction
               /\ RowsOf(r, store') = {}
         /\ Rejected(r) => run'[r] = run[r]]_vars

\* C16 witness: request 1 was refused for an unparsable payload while the
\* table holds the record of request 2 only.
C16_Witness ==
    /\ Rejected(1)
    /\ run[1].err.exc = "invalid JSON"
    /\ RowsOf(1, store) = {}
    /\ run[2].pc = "done"
    /\ RowsOf(2, store) # {}

(***************************************************************************)
(* C17.                                                                    *)
(***************************************************************************)
\* C17: no extractor propagates an exception to upload_input, for every
\* content value the classifier can route to it, every result of its store
\* lookup and every outcome of the capability; an extractor whose call to
\* the capability raised returns empty fields and no chained action.
C17_ExtractorNeverRaises ==
    \A r \in Runs :
        /\ run[r].err.at # "extract"
        /\ /\ run[r].pc = "resolve"
           /\ run[r].call.site = "gemini"
           /\ run[r].call.res # "returned"
           => /\ run[r].out.extracted = "empty"
              /\ run[r].out.chained = None

(***************************************************************************)
(* C18.                                                                    *)
(***************************************************************************)
\* C18: when the call the Email extractor makes to the capability fails
\* (transient failures up to the last attempt, any other failure, or an
\* error response), the Email extractor returns empty extracted fields and
\* no chained action.
C18_EmailFailureGivesNoAction ==
    \A r \in Runs :
        ExtractionOutage(r) /\ run[r].pc = "resolve" =>
            /\ run[r].out.extracted = "empty"
            /\ run[r].out.chained = None

(***************************************************************************)
(* C19.                                                                    *)
(***************************************************************************)
\* the response of the capability holds a dict that fails the schema: a
\* required key is missing, or a value is outside its enumeration
FailsSchema(v) ==
    /\ v.t = "dict" \/ (v.t = "str" /\ v.lt = "dict")
    /\ \/ v.d.format \notin {"JSON", "Email", "PDF", "Unknown"}
       \/ v.d.intent \notin {"RFQ", "Complaint", "Invoice", "Regulation",
                              "Fraud Risk", "Unknown"}
       \/ v.d.routed_agent \notin {"EmailAgent", "JSONAgent", "PDFAgent",
                                    "UnknownAgent"}

\* what classify returns for the content when the call to the capability
\* failed: by raising, or by an error response
FailedCallClassifications(content) ==
    { classify(content, AfterRaise(NewCall("gemini"), "network"), ReturnsNone).value,
      classify(content, AfterReturn(NewCall("gemini"), "http"), ReturnsNone).value }

\* C19: a response of the classifier capability that fails schema
\* validation, by a missing required key or by a value outside its
\* enumeration, is handled like a failed call: the Classification returned
\* is one a failed call produces for that input.
C19_SchemaFailureLikeFailedCall ==
    \A r \in Runs :
        /\ Classified(r)
        /\ run[r].call.res = "returned"
        /\ run[r].call.last = "ok"
        /\ FailsSchema(run[r].raw)
        => run[r].cls \in FailedCallClassifications(run[r].inp.content)

(***************************************************************************)
(* C20.                                                                    *)
(***************************************************************************)
\* the ids in the table
Ids(rows) == { row.id : row \in rows }

\* the requests whose upload_input has returned
Done == { r \in Runs : run[r].pc = "done" }

\* a record written whole: every column holds what the run ended with
CompleteRecord(row) ==
    /\ row.classification.format \in FormatEnum
    /\ row.classification.intent \in IntentEnum
    /\ row.classification.routed_agent \in AgentEnum
    /\ row.agent = row.classification.routed_agent
    /\ row.final \in {"ok", "failed"}

\* C20: record store under concurrent runs.  Every write_interaction adds
\* exactly one record, complete, with an id greater than every id assigned
\* before it, and changes no other record; no append is lost: the table
\* holds one record per completed run, all with distinct ids; and an
\* extractor's read returns the intent of the complete record with the
\* greatest id, or nothing when the table is empty.
C20_StoreAppendsAndReads ==
    [][/\ store \subseteq store'
       /\ Cardinality(store' \ store) = Cardinality(Done' \ Done)
       /\ Cardinality(store' \ store) <= 1
       /\ \A row \in store' \ store :
             /\ \A old \in store : old.id < row.id
             /\ row.id > lastId
             /\ row.id <= lastId'
             /\ CompleteRecord(row)
       /\ Cardinality(Ids(store')) = Cardinality(store')
       /\ Cardinality({ row \in store' : row.run \in Runs }) = Cardinality(Done')
       /\ \A r \in Runs :
             LookupInStep(r) # "n/a" =>
                IF store = {} THEN LookupInStep(r) = None
                ELSE \E row \in store :
                        /\ row.id = lastId
                        /\ \A other \in store : other.id <= row.id
                        /\ row.run \in Runs => CompleteRecord(row)
                        /\ LookupInStep(r) = row.classification.intent]_vars

\* C20 witness: both requests completed while in flight together; the table
\* holds the rows found at start and one record of each request, with
\* distinct ids, and the later record shows the read of the earlier one.
C20_Witness ==
    /\ Done = Runs
    /\ Cardinality(store) = MaxOld + MaxRuns
    /\ Cardinality(Ids(store)) = MaxOld + MaxRuns
    /\ \E a \in RowsOf(1, store), b \in RowsOf(2, store) :
          /\ a.id = lastId
          /\ b.id = lastId - 1
          /\ a.seen = b.classification.intent
          /\ a.seen # a.classification.intent

(***************************************************************************)
(* C21.                                                                    *)
(***************************************************************************)
\* C21: the record store is append-only.  No operation of the store alters
\* or removes a record once written: every record of the table is in the
\* table, unchanged, after every step, and the history only grows.
C21_AppendOnly ==
    [][/\ store \subseteq store'
       /\ Cardinality(store') >= Cardinality(store)]_vars

(***************************************************************************)
(* C22.                                                                    *)
(***************************************************************************)
\* the positions from which upload_input can reach position p in one step
StageBefore(p) ==
    CASE p = "classify" -> {"idle"}
      [] p = "route"    -> {"classify"}
      [] p = "email"    -> {"route"}
      [] p = "resolve"  -> {"route", "email"}
      [] p = "action"   -> {"resolve"}
      [] p = "persist"  -> {"resolve", "action"}
      [] p = "done"     -> {"persist"}
      [] p = "aborted"  -> {"classify", "route", "email", "resolve", "action"}
      [] OTHER          -> {"idle"}

\* C22: within each run the stages occur strictly in the order classify,
\* extract, resolve, persist.  classify is entered once, from the arrival of
\* the request; the extractor is called after classify returned; the
\* resolver and its side-effect call come after extraction and before the
\* write; the table changes only in the step in which the run writes its
\* record and returns, and after that the run does nothing more.
C22_StagesInOrder ==
    [][\A r \in Runs :
         /\ run'[r].pc # run[r].pc => run[r].pc \in StageBefore(run'[r].pc)
         /\ run[r].pc = "classify" => run[r].call.site = "gemini"
         /\ run[r].pc = "action" => run[r].call.site \in {"crm", "risk"}
         /\ run[r].call.site \in {"crm", "risk"} /\ run[r].call.res = "running" =>
               /\ run[r].pc = "action"
               /\ RowsOf(r, store) = {}
         /\ RowsOf(r, store') # RowsOf(r, store) =>
               /\ run[r].pc = "persist"
               /\ run'[r].pc = "done"
         /\ run[r].pc = "done" => run'[r] = run[r]]_vars

\* C22 witness: request 1 went through every stage: classified to the
\* Email extractor, extracted with a lookup, escalated to the CRM, and wrote
\* its record last.
C22_Witness ==
    /\ run[1].pc = "done"
    /\ \E row \in RowsOf(1, store) :
          /\ row.agent = "EmailAgent"
          /\ row.seen # "n/a"
          /\ row.chained = "Escalate to CRM"
          /\ row.final = "ok"
          /\ row.id = lastId

(***************************************************************************)
(* C23.                                                                    *)
(***************************************************************************)
\* The extractor a chained_action value comes from; the three extractors
\* return disjoint sets of values, and the key is missing when none ran.
Producer(chained) ==
    IF chained \in {"Log Anomaly", "Process JSON Data", "Flag Fraud Risk"}
    THEN "JSONAgent"
    ELSE IF chained \in {"Log Error", "Review PDF Manually",
                         "Flag High Value Invoice", "Process Invoice",
                         "Flag Compliance Risk", "Process Policy Document"}
    THEN "PDFAgent"
    ELSE IF chained \in {None, "Escalate to CRM", "Flag Risk and Escalate",
                         "Log and Close"}
    THEN "EmailAgent"
    ELSE "none"

\* the extraction stage of request r is over
Extracted(r) == run[r].pc \in {"resolve", "action", "persist"}

\* C23 as stated: every run that reaches the extraction stage invokes
\* exactly one extractor, the one named by routed_agent, and its
\* ExtractionResult is the result of that extractor.
C23_ExactlyOneExtractor ==
    \A r \in Runs :
        Extracted(r) =>
            /\ Producer(run[r].out.chained) \in {"EmailAgent", "JSONAgent", "PDFAgent"}
            /\ Producer(run[r].out.chained) = run[r].cls.routed_agent

\* C23, amended: a run that reaches the extraction stage invokes the one
\* extractor routed_agent names when that is EmailAgent, JSONAgent or
\* PDFAgent, and its ExtractionResult is the result of that extractor; when
\* routed_agent is UnknownAgent it invokes none, and its ExtractionResult
\* is empty.  The record names routed_agent as the agent of the result.
C23_RoutedExtractorOnly ==
    \A r \in Runs :
        /\ run[r].pc = "email" => run[r].cls.routed_agent = "EmailAgent"
        /\ Extracted(r) =>
              IF run[r].cls.routed_agent = "UnknownAgent"
              THEN run[r].out = NoAgentOutput /\ run[r].lookup = "n/a"
              ELSE Producer(run[r].out.chained) = run[r].cls.routed_agent
        /\ \A row \in RowsOf(r, store) :
              /\ row.agent = row.classification.routed_agent
              /\ IF row.agent = "UnknownAgent"
                 THEN row.chained = ABSENT /\ row.extracted = "empty"
                 ELSE Producer(row.chained) = row.agent

\* C23 witness: a payload classified with format Email but routed to the
\* JSON agent was handled by the JSON agent.
C23_Witness ==
    /\ Extracted(1)
    /\ run[1].cls.format = "Email"
    /\ run[1].cls.routed_agent = "JSONAgent"
    /\ run[1].inp.input_type = "json"
    /\ Producer(run[1].out.chained) = "JSONAgent"
    /\ run[1].lookup # "n/a"

(***************************************************************************)
(* C24.                                                                    *)
(***************************************************************************)
\* C24: every chained action an extractor returns is absent (no key, or
\* None) or a label of the resolver's table, so that the resolver settles
\* it by the table and never by an intent rule or the default.
C24_ChainedActionInTable ==
    \A r \in Runs :
        /\ Extracted(r) =>
              \/ run[r].out.chained \in {ABSENT, None}
              \/ TableAction(run[r].out.chained) # "none"
        /\ Resolved(r) /\ run[r].out.chained \notin {ABSENT, None} =>
              run[r].act.type \notin IntentRuleTypes

(***************************************************************************)
(* C25.                                                                    *)
(***************************************************************************)
\* C25: in every Classification classify returns, from the capability or
\* from the heuristic, routed_agent is the fixed image of format: Email ->
\* EmailAgent, JSON -> JSONAgent, PDF -> PDFAgent, Unknown -> UnknownAgent.
C25_RoutedAgentFollowsFormat ==
    \A r \in Runs :
        Classified(r) =>
            run[r].cls.routed_agent =
                (CASE run[r].cls.format = "Email" -> "EmailAgent"
                   [] run[r].cls.format = "JSON"  -> "JSONAgent"
                   [] run[r].cls.format = "PDF"   -> "PDFAgent"
                   [] OTHER                       -> "UnknownAgent")

(***************************************************************************)
(* C26.                                                                    *)
(***************************************************************************)
\* the action kind and "type" the intent rules give, in their order
FallbackAction(intent, d) ==
    IF intent = "Complaint" /\ d.urgency \in {"High", "Critical"}
    THEN [kind |-> "crm", type |-> "Classifier-driven Complaint Escalation"]
    ELSE IF intent = "Fraud Risk" /\ d.risk_level = "High"
    THEN [kind |-> "risk", type |-> "Classifier-driven Fraud Risk Detected"]
    ELSE IF intent = "Invoice" /\ d.invoice_total > 10000
    THEN [kind |-> "risk", type |-> "Classifier-driven High Value Invoice Alert"]
    ELSE IF intent = "Regulation" /\ d.compliance_keywords
    THEN [kind |-> "risk", type |-> "Classifier-driven Compliance Risk Flagged"]
    ELSE [kind |-> "log", type |-> "Routine Processing (Default)"]

\* C26: resolver fallback.  When the context's chained_action is absent or
\* no label of the table, the action is the one of the first intent rule
\* that matches (Complaint with urgency High or Critical -> CRM escalation;
\* Fraud Risk with risk_level High -> risk alert; Invoice with
\* invoice_total > 10000 -> risk alert; Regulation with compliance keywords
\* -> risk alert), else log-and-close.  In every case, table or fallback,
\* one of the three action kinds is executed, and once the call has
\* returned the run holds its status.
C26_FallbackRules ==
    \A r \in Runs :
        Resolved(r) =>
            /\ run[r].act.kind \in {"crm", "risk", "log"}
            /\ TableAction(run[r].out.chained) = "none" =>
                  run[r].act = FallbackAction(run[r].cls.intent, run[r].out.atd)
            /\ run[r].pc = "persist" => run[r].final \in {"ok", "failed"}
            /\ run[r].act.kind = "log" =>
                  run[r].pc = "persist" /\ run[r].final = "ok"

\* C26 witness: a label that is not in the table ("Flag Fraud Risk") with
\* intent Invoice and a total of 12500: the fallback raised the risk alert
\* and its status was returned.
C26_Witness ==
    /\ run[1].pc = "persist"
    /\ run[1].out.chained = "Flag Fraud Risk"
    /\ run[1].cls.intent = "Invoice"
    /\ run[1].out.atd.invoice_total = 12500
    /\ run[1].act = [kind |-> "risk",
                     type |-> "Classifier-driven High Value Invoice Alert"]
    /\ run[1].final = "ok"

(***************************************************************************)
(* JSONAgent, field by field.                                              *)
(***************************************************************************)
\* a value of the payload: its JSON type and, for a number, its value in
\* hundredths (0.8 is 80); json.loads gives True and False for true and
\* false, which compare as 1 and 0
JsonValue(t, v) == [t |-> t, v |-> v]

JsonValues ==
    { JsonValue(t, 0) : t \in {"str", "list", "dict", "null"} }
    \cup { JsonValue("int", v) : v \in {0, 100} }
    \cup { JsonValue("float", v) : v \in {50, 80, 81, 95} }
    \cup { JsonValue("bool", v) : v \in {0, 100} }

\* self.required_schemas: field name -> expected type
SchemaRFQ ==
    [request_id |-> "str", items |-> "list", due_date |-> "str",
     contact_email |-> "str"]

SchemaFraudRisk ==
    [transaction_id |-> "str", amount |-> "int_float", user_id |-> "str",
     risk_score |-> "int_float", ip_address |-> "str"]

SchemaInvoice ==
    [invoice_number |-> "str", customer_id |-> "str",
     total_amount |-> "int_float", currency |-> "str", line_items |-> "list"]

required_schemas(intent) ==
    CASE intent = "RFQ"        -> SchemaRFQ
      [] intent = "Fraud Risk" -> SchemaFraudRisk
      [] intent = "Invoice"    -> SchemaInvoice

\* isinstance(value, expected_type); bool is a subclass of int
isinstance(value, expected_type) ==
    CASE expected_type = "str"       -> value.t = "str"
      [] expected_type = "list"      -> value.t = "list"
      [] expected_type = "int_float" -> value.t \in {"int", "float", "bool"}

\* the fields _validate_json_schema(data, intent) reports, or the one
\* message about the missing schema
_validate_json_schema(data, intent) ==
    IF ~HasSchema(intent)
    THEN {"No schema defined"}
    ELSE { field \in DOMAIN required_schemas(intent) :
             \/ field \notin DOMAIN data
             \/ ~isinstance(data[field], required_schemas(intent)[field]) }

\* extracted_data.get("risk_score", 0)
GetRiskScore(data) ==
    IF "risk_score" \in DOMAIN data THEN data["risk_score"].v ELSE 0

\* 0.8, in hundredths
FraudScoreThreshold == 80

JsonOutput(chained, errors, risk_level) ==
    [chained_action |-> chained, validation_errors |-> errors,
     risk_level |-> risk_level]

\* process_input(input_content) on a dict, reading the table `rows`
JSONAgent_decide(data, rows) ==
    LET classification_intent == LatestIntent(rows)
        validation_errors == _validate_json_schema(data, classification_intent)
    IN  IF classification_intent = None
        THEN JsonOutput("Log Anomaly", ABSENT, ABSENT)
        ELSE IF validation_errors # {}
        THEN JsonOutput("Log Anomaly", validation_errors, ABSENT)
        ELSE IF /\ classification_intent = "Fraud Risk"
                /\ GetRiskScore(data) > FraudScoreThreshold
        THEN JsonOutput("Flag Fraud Risk", validation_errors, "High")
        ELSE JsonOutput("Process JSON Data", validation_errors, ABSENT)

\* a payload that satisfies the schema
SamplePayload(schema) ==
    [field \in DOMAIN schema |->
        CASE schema[field] = "str"       -> JsonValue("str", 0)
          [] schema[field] = "list"      -> JsonValue("list", 0)
          [] schema[field] = "int_float" -> JsonValue("float", 50)]

WithoutField(data, field) ==
    [f \in DOMAIN data \ {field} |-> data[f]]

Schemas == {SchemaRFQ, SchemaFraudRisk, SchemaInvoice}

\* the payloads: each sample, with one field removed or given another value
JsonPayloads ==
    UNION { {SamplePayload(sc)}
            \cup { WithoutField(SamplePayload(sc), f) : f \in DOMAIN sc }
            \cup { [SamplePayload(sc) EXCEPT ![f] = v] :
                      f \in DOMAIN sc, v \in JsonValues } : sc \in Schemas }

\* a table whose latest row was classified with `intent`
StoreWithIntent(intent) ==
    IF intent = None
    THEN {}
    ELSE { InteractionRecord(1, 0, "json",
               Classification("JSON", intent, "JSONAgent"),
               "JSONAgent", "dict", ABSENT, "ok", "n/a") }

JsonLocals(p, data, out) == [pc |-> p, json_data |-> data, out |-> out]

InitJson ==
    /\ \E data \in JsonPayloads, intent \in IntentEnum \cup {None} :
         /\ run = [r \in Runs |->
                     IF r = 1
                     THEN JsonLocals("extract", data, None)
                     ELSE JsonLocals("idle", data, None)]
         /\ store = StoreWithIntent(intent)
    /\ lastId = Cardinality(store)
    /\ files = NoFiles

\* agent_output_data = json_agent.process_input(input_content)
JsonProcess(r) ==
    /\ run[r].pc = "extract"
    /\ run' = [run EXCEPT ![r] =
                 JsonLocals("resolve", run[r].json_data,
                            JSONAgent_decide(run[r].json_data, store))]
    /\ UNCHANGED <<store, lastId, files>>

NextJson == JsonProcess(1)

SpecJson == InitJson /\ [][NextJson]_vars

(***************************************************************************)
(* C27.                                                                    *)
(***************************************************************************)
\* the member types of the specification's types; integer-or-float has the
\* members integer and float
MemberTypes(expected_type) ==
    CASE expected_type = "str"       -> {"str"}
      [] expected_type = "list"      -> {"list"}
      [] expected_type = "int_float" -> {"int", "float"}

\* a required field of the schema is missing from the payload or has a
\* value whose type is no member of the field's type
MissingOrMistyped(data, schema) ==
    \E field \in DOMAIN schema :
        \/ field \notin DOMAIN data
        \/ data[field].t \notin MemberTypes(schema[field])

JsonDecided(r) == run[r].pc = "resolve" /\ LatestIntent(store) # None

\* C27: Structured-Data extractor decision.  Given the intent it validates
\* against, a payload with a missing required field or a field of a wrong
\* type gets at least one validation error and "Log Anomaly"; a payload
\* with zero errors gets "Process JSON Data", except that it gets "Flag
\* Fraud Risk" exactly when the intent is Fraud Risk and risk_score is
\* strictly greater than 0.8.
C27_JsonDecision ==
    \A r \in Runs :
        JsonDecided(r) =>
            LET intent == LatestIntent(store)
                data == run[r].json_data
                out == run[r].out
            IN  /\ HasSchema(intent) /\ MissingOrMistyped(data, required_schemas(intent))
                     => /\ out.validation_errors # {}
                        /\ out.chained_action = "Log Anomaly"
                /\ out.validation_errors # {} => out.chained_action = "Log Anomaly"
                /\ out.validation_errors = {} =>
                     out.chained_action =
                        IF intent = "Fraud Risk" /\ GetRiskScore(data) > 80
                        THEN "Flag Fraud Risk"
                        ELSE "Process JSON Data"

(***************************************************************************)
(* C28.                                                                    *)
(***************************************************************************)
PdfLabels ==
    {"Review PDF Manually", "Flag High Value Invoice", "Process Invoice",
     "Flag Compliance Risk", "Process Policy Document"}

\* C28: Document extractor decision.  For every input the extractor is
\* handed, the chained action is one of five labels: "Review PDF Manually"
\* when extraction fails or gives empty text or the intent is neither
\* Invoice nor Regulation, "Flag High Value Invoice" or "Process Invoice"
\* under Invoice, "Flag Compliance Risk" or "Process Policy Document" under
\* Regulation.
C28_PdfDecision ==
    \A r \in Runs :
        Extracted(r) /\ run[r].cls.routed_agent = "PDFAgent" =>
            /\ run[r].out.chained \in PdfLabels
            /\ run[r].inp.content.doc = "unreadable"
                   => run[r].out.chained = "Review PDF Manually"

(***************************************************************************)
(* C29.                                                                    *)
(***************************************************************************)
\* the Email extractor of request r has returned, and the call it made to
\* the capability returned without raising
EmailCallReturned(r) ==
    /\ run[r].pc = "resolve"
    /\ run[r].cls.routed_agent = "EmailAgent"
    /\ run[r].call.res = "returned"

\* C29: Email extractor decision.  On the extracted tone and urgency, in
\* this order: tone Escalation or urgency High or Critical gives "Escalate
\* to CRM"; otherwise tone Threatening gives "Flag Risk and Escalate";
\* otherwise "Log and Close".  Whenever the capability call returns without
\* raising, the chained action is one of these three labels.
C29_EmailDecision ==
    \A r \in Runs :
        EmailCallReturned(r) =>
            /\ run[r].out.chained \in
                  {"Escalate to CRM", "Flag Risk and Escalate", "Log and Close"}
            /\ run[r].out.chained =
                  IF \/ run[r].out.atd.tone = "Escalation"
                     \/ run[r].out.atd.urgency \in {"High", "Critical"}
                  THEN "Escalate to CRM"
                  ELSE IF run[r].out.atd.tone = "Threatening"
                  THEN "Flag Risk and Escalate"
                  ELSE "Log and Close"

ExtractorFor(input_type) ==
    CASE input_type \in {"email_text", "email_file"} -> "EmailAgent"
      [] input_type = "json"                         -> "JSONAgent"
      [] input_type = "pdf"                          -> "PDFAgent"

\* C31: the extractor invoked in a run matches the kind of the inbound
\* input: an email file or email text goes to the Email extractor only, a
\* structured-data payload to the Structured-Data extractor only, a PDF file
\* to the Document extractor only.
C31_ExtractorMatchesInput ==
    \A r \in Runs :
        /\ run[r].pc = "email" \/ Extracted(r)
        /\ run[r].cls.routed_agent # "UnknownAgent"
        => run[r].cls.routed_agent = ExtractorFor(run[r].inp.input_type)

(***************************************************************************)
(* C32.                                                                    *)
(***************************************************************************)
\* request r is past its extraction stage and the table is empty: in a
\* run on its own the table changes only when the run returns, so the
\* extractor read the empty table
ExtractedOnEmptyStore(r) == Extracted(r) /\ store = {}

\* the Document extractor was handed the path of a stored .pdf file
HandedPdfFile(r) ==
    /\ run[r].cls.routed_agent = "PDFAgent"
    /\ run[r].inp.content.exists
    /\ run[r].inp.content.ext = "pdf"

C33_EmailFieldsInEnum ==
    \A r \in Runs :
        /\ Extracted(r)
        /\ run[r].cls.routed_agent = "EmailAgent"
        /\ run[r].out.atd # EmptyTriggerData
        => /\ run[r].out.atd.urgency \in UrgencyEnum
           /\ run[r].out.atd.tone \in ToneEnum

(***************************************************************************)
(* C35.                                                                    *)
(***************************************************************************)
\* request r was routed to UnknownAgent and is past the extraction stage
RoutedToUnknown(r) ==
    Extracted(r) /\ run[r].cls.routed_agent = "UnknownAgent"

\* C35: a run whose classification routes to UnknownAgent invokes no
\* extractor, passes an empty trigger context to the resolver, ends with
\* log-and-close for every intent, and still appends exactly one record:
\* none before its write, one once it has returned.
C35_UnknownAgentRun ==
    \A r \in Runs :
        /\ RoutedToUnknown(r) =>
              /\ run[r].out = NoAgentOutput
              /\ run[r].lookup = "n/a"
              /\ action_data_for_router(run[r].out) = EmptyTriggerData
              /\ run[r].pc # "action"
              /\ Resolved(r) =>
                    /\ run[r].act = Action("log", "Routine Processing (Default)")
                    /\ run[r].final = "ok"
              /\ RowsOf(r, store) = {}
        /\ \A row \in RowsOf(r, store) :
              row.agent = "UnknownAgent" =>
                 /\ row.classification.routed_agent = "UnknownAgent"
                 /\ row.extracted = "empty"
                 /\ row.chained = ABSENT
                 /\ row.final = "ok"
        /\ run[r].pc = "done" => Cardinality(RowsOf(r, store)) = 1

\* C35 witness: a run classified Complaint and routed to UnknownAgent has
\* returned, and its one record shows no extractor result and a final
\* action that succeeded.
C35_Witness ==
    /\ run[1].pc = "done"
    /\ \E row \in RowsOf(1, store) :
          /\ row.agent = "UnknownAgent"
          /\ row.classification.intent = "Complaint"
          /\ row.chained = ABSENT
          /\ row.final = "ok"

(***************************************************************************)
(* Specification of concurrent file uploads: the requests save their       *)
(* files under UPLOAD_DIR by the names the clients gave, and the           *)
(* extractor of a request reads what is under its path when it runs.       *)
(***************************************************************************)
\* what the uploaded PDF files hold
UploadDocs == {"invoice_high", "plain"}

\* a request with file=<name>.pdf whose bytes are the document d
PdfUpload(d) ==
    Input("pdf", Content("str", TRUE, FALSE, FALSE, TRUE, "pdf", "n/a", d))

\* the locals of a request with a file: file_path and the bytes sent
FileLocals(l, name, sent) == l @@ [name |-> name, sent |-> sent]

\* the content as a reader of file_path finds it: no file, a file that
\* open(file_path, "wb") has truncated and that is not written yet, or the
\* bytes last written
Present(l, dir) ==
    [l EXCEPT !.inp.content =
        IF dir[l.name] = "absent" THEN [@ EXCEPT !.exists = FALSE]
        ELSE IF dir[l.name] = "empty" THEN [@ EXCEPT !.doc = "unreadable"]
        ELSE [@ EXCEPT !.exists = TRUE, !.doc = dir[l.name]]]

\* os.remove(file_path) at the end of upload_input
os_remove(dir, name) == [dir EXCEPT ![name] = "absent"]

\* file_path = os.path.join(UPLOAD_DIR, original_filename);
\* open(file_path, "wb") creates or truncates the file; await file.read()
FileOpen(r) ==
    /\ run[r].pc = "idle"
    /\ \E n \in FileNames, d \in UploadDocs :
        /\ run' = [run EXCEPT ![r] =
                     FileLocals([Locals("upload", NoError) EXCEPT !.inp = PdfUpload(d)],
                                n, d)]
        /\ files' = [files EXCEPT ![n] = "empty"]
    /\ UNCHANGED <<store, lastId>>

\* f.write(...), the file is closed, and classify awaits generate_content
FileSave(r) ==
    /\ run[r].pc = "upload"
    /\ run' = [run EXCEPT ![r].pc = "classify", ![r].call = NewCall("gemini")]
    /\ files' = [files EXCEPT ![run[r].name] = run[r].sent]
    /\ UNCHANGED <<store, lastId>>

\* request r goes on from locals l until it awaits or ends; when it
\* returns it has removed file_path
ContinueFiles(r, l, rows) ==
    /\ run' = [run EXCEPT ![r] = SyncLocals(l, rows, Stages)]
    /\ store' = SyncRows(l, rows, lastId + Cardinality(rows \ store), r, Stages)
    /\ lastId' = lastId + Cardinality(store' \ store)
    /\ files' = IF SyncLocals(l, rows, Stages).pc = "done"
                THEN os_remove(files, run[r].name)
                ELSE files

\* the capability classifies the uploads as invoices in PDF
FilesClassifierValues ==
    { JValue("dict", Classification("PDF", "Invoice", "PDFAgent"), "n/a") }

\* the Gemini call of classify ends, and upload_input runs on: the
\* extractor reads what is under file_path now
FilesClassifyFinish(r, Values, Fails) ==
    /\ run[r].pc = "classify"
    /\ run[r].call.res = "running"
    /\ \E e \in CallEnds(run[r].call, Values, ReturnsNone, Fails) :
        ContinueFiles(r, AfterClassify(Present(run[r], files), e), store)

\* the risk-alert call ends, and upload_input runs on
FilesActionFinish(r, Fails) ==
    /\ run[r].pc = "action"
    /\ run[r].call.res = "running"
    /\ \E e \in CallEnds(run[r].call, {"ok"}, "failed", Fails) :
        ContinueFiles(r, AfterAction(run[r], e), store)

NextFiles ==
    \E r \in Runs :
        \/ FileOpen(r)
        \/ FileSave(r)
        \/ ClassifyRetry(r, PipelineFails)
        \/ FilesClassifyFinish(r, FilesClassifierValues, PipelineFails)
        \/ ActionRetry(r, PipelineFails)
        \/ FilesActionFinish(r, PipelineFails)

SpecFiles == Init /\ [][NextFiles]_vars

(***************************************************************************)
(* C36.                                                                    *)
(***************************************************************************)
\* request r has saved its file and its extractor has not run yet
AwaitsExtraction(r) == run[r].pc = "classify"

\* C36: under concurrent runs, the file a run stored under the upload
\* directory stays present and unchanged from the moment the run wrote it
\* until that run's own extractor has read it: no other run overwrites or
\* removes it in between, not even one that uploaded a file of the same
\* name.
C36_UploadedFileStable ==
    \A r \in Runs :
        AwaitsExtraction(r) => files[run[r].name] = run[r].sent

(***************************************************************************)
(* ui_upload_input: the stages of the /ui_upload handler, as functions of  *)
(* the locals l of a request and of the table.                             *)
(***************************************************************************)
\* except HTTPException / except Exception: the error is rendered in
\* index.html and the handler returns
ui_Raise(at, exc) == Locals("error_page", Error(at, exc))

\* classification_result = await classifier_agent.classify(...)
ui_AfterClassify(l, e) ==
    LET res == classify(l.inp.content, e[1], e[2]) IN
    IF res.raised = "none"
    THEN [l EXCEPT !.call = e[1], !.raw = e[2], !.cls = res.value, !.pc = "route"]
    ELSE ui_Raise("classify", res.raised)

\* the if / elif on routed_agent_name of ui_upload_input
ui_Extract(l, rows) ==
    LET content == l.inp.content IN
    IF l.cls.routed_agent = "EmailAgent"
    THEN IF content.kind # "str"
         THEN [l EXCEPT !.out = EmailAgent_invalid_input, !.call = NoCall,
                        !.raw = ReturnsNone, !.pc = "resolve"]
         ELSE [l EXCEPT !.lookup = LatestIntent(rows), !.raw = ReturnsNone,
                        !.call = NewCall("gemini"), !.pc = "email"]
    ELSE IF l.cls.routed_agent = "JSONAgent"
    THEN [l EXCEPT !.lookup = LatestIntent(rows), !.raw = ReturnsNone,
                   !.out = JSONAgent_process_input(content, rows),
                   !.call = NoCall, !.pc = "resolve"]
    ELSE IF l.cls.routed_agent = "PDFAgent"
    THEN IF PDFAgent_raises(content)
         THEN ui_Raise("extract", "TypeError")
         ELSE [l EXCEPT !.lookup = IF PDFAgent_reads(content)
                                   THEN LatestIntent(rows) ELSE "n/a",
                        !.out = PDFAgent_process_input(content, rows),
                        !.raw = ReturnsNone, !.call = NoCall, !.pc = "resolve"]
    ELSE [l EXCEPT !.out = NoAgentOutput, !.raw = ReturnsNone,
                   !.call = NoCall, !.pc = "resolve"]

\* agent_output_data = await email_agent.process_input(input_content)
ui_AfterEmail(l, e) ==
    LET res == EmailAgent_after_call(e[1], e[2], l.lookup) IN
    IF res.raised = "none"
    THEN [l EXCEPT !.call = e[1], !.out = res.value, !.pc = "resolve"]
    ELSE ui_Raise("extract", res.raised)

\* AgentOutput(...) and the call of action_router.trigger_final_action
ui_Resolve(l) ==
    IF AgentOutput_raises(l.out)
    THEN ui_Raise("assemble", "ValidationError")
    ELSE LET a == trigger_final_action(l.cls.intent, action_data_for_router(l.out)) IN
         IF a.kind = "log"
         THEN [l EXCEPT !.act = a, !.final = "ok", !.pc = "persist"]
         ELSE [l EXCEPT !.act = a, !.call = NewCall(a.kind), !.pc = "action"]

\* final_action_triggered = await action_router.trigger_final_action(...)
ui_AfterAction(l, e) ==
    IF e[1].res = "returned"
    THEN [l EXCEPT !.call = e[1], !.final = e[2], !.pc = "persist"]
    ELSE [ui_Raise("action", e[1].res) EXCEPT !.call = e[1]]

\* a handler that renders the page without writing the interaction
ui_PersistRows_skipped(l, rows, lastid, r) == rows

\* memory.write_interaction(...) of ui_upload_input
ui_PersistRows(l, rows, lastid, r) ==
    write_interaction(rows, lastid, r, l.inp.input_type, l.cls,
                      l.cls.routed_agent, l.out.extracted, l.out.chained,
                      l.final, l.lookup)

\* return templates.TemplateResponse("index.html", {..., "result": ...})
ui_Return(l) == Locals("done", NoError)

(***************************************************************************)
(* Specification of the two entry points side by side: request 1 comes in  *)
(* by /upload and request 2 by /ui_upload, with the same input; both read  *)
(* the table before either writes, and every external call of the one ends *)
(* as the same call of the other.                                          *)
(***************************************************************************)
Upload == 1

UiUpload == 2

\* both handlers are at the position p of their code
BothAt(p) == run[Upload].pc = p /\ run[UiUpload].pc = p

\* the two requests after a stage, the table after both
PairStep(l, ui, rows) ==
    /\ run' = [run EXCEPT ![Upload] = l, ![UiUpload] = ui]
    /\ store' = rows
    /\ lastId' = lastId + Cardinality(store' \ store)
    /\ UNCHANGED files

\* the same form fields are posted to both entry points
PairReceive(Ins) ==
    /\ BothAt("idle")
    /\ \E i \in Ins :
        PairStep([run[Upload] EXCEPT !.inp = i, !.pc = "classify",
                                     !.call = NewCall("gemini")],
                 [run[UiUpload] EXCEPT !.inp = i, !.pc = "classify",
                                       !.call = NewCall("gemini")],
                 store)

\* both refuse the request: HTTPException(400) leaves upload_input, and
\* ui_upload_input renders it
PairReject ==
    /\ BothAt("idle")
    /\ \E q \in InvalidRequests :
        PairStep(Locals("rejected", Error("validation", q)),
                 ui_Raise("validation", q),
                 upload_input_rejects(store, lastId, Upload, q))

\* the same attempt fails in both with a failure that tenacity retries
PairRetry(where, Fails) ==
    /\ BothAt(where)
    /\ run[Upload].call.res = "running"
    /\ run[UiUpload].call = run[Upload].call
    /\ \E e \in Fails \cap RequestErrors :
        /\ Retries(run[Upload].call, e)
        /\ PairStep([run[Upload] EXCEPT !.call = AfterRetry(@, e)],
                    [run[UiUpload] EXCEPT !.call = AfterRetry(@, e)],
                    store)

PairClassifyReturn(Values, Fails) ==
    /\ BothAt("classify")
    /\ run[Upload].call.res = "running"
    /\ run[UiUpload].call = run[Upload].call
    /\ \E e \in CallEnds(run[Upload].call, Values, ReturnsNone, Fails) :
        PairStep(AfterClassify(run[Upload], e),
                 ui_AfterClassify(run[UiUpload], e), store)

PairRoute ==
    /\ BothAt("route")
    /\ PairStep(Extract(run[Upload], store), ui_Extract(run[UiUpload], store),
                store)

PairEmailReturn(Values, Fails) ==
    /\ BothAt("email")
    /\ run[Upload].call.res = "running"
    /\ run[UiUpload].call = run[Upload].call
    /\ \E e \in CallEnds(run[Upload].call, Values, EmailReturnsNone, Fails) :
        PairStep(AfterEmail(run[Upload], e), ui_AfterEmail(run[UiUpload], e),
                 store)

PairResolve ==
    /\ BothAt("resolve")
    /\ PairStep(Resolve(run[Upload]), ui_Resolve(run[UiUpload]), store)

PairActionReturn(Fails) ==
    /\ BothAt("action")
    /\ run[Upload].call.res = "running"
    /\ run[UiUpload].call = run[Upload].call
    /\ \E e \in CallEnds(run[Upload].call, {"ok"}, "failed", Fails) :
        PairStep(AfterAction(run[Upload], e), ui_AfterAction(run[UiUpload], e),
                 store)

\* each writes its interaction and returns
PairPersist ==
    /\ BothAt("persist")
    /\ PairStep(Return(run[Upload]), ui_Return(run[UiUpload]),
                ui_PersistRows(run[UiUpload],
                               PersistRows(run[Upload], store, lastId, Upload),
                               lastId + 1, UiUpload))

NextPair ==
    \/ PairReceive(AllInputs)
    \/ PairReject
    \/ PairRetry("classify", Failures)
    \/ PairClassifyReturn(RunClassifierValues, Failures)
    \/ PairRoute
    \/ PairRetry("email", Failures)
    \/ PairEmailReturn(RunEmailValues, Failures)
    \/ PairResolve
    \/ PairRetry("action", Failures)
    \/ PairActionReturn(Failures)
    \/ PairPersist

SpecPair == Init /\ [][NextPair]_vars

(***************************************************************************)
(* C34.                                                                    *)
(***************************************************************************)
\* where ui_upload_input is when upload_input is at p: the same place, or
\* the rendered error page when upload_input ended in an exception
UiPosition(p) == IF p \in {"aborted", "rejected"} THEN "error_page" ELSE p

\* the record without the fields that tell the two requests apart
CoreOfRecord(row) ==
    [source |-> row.source, classification |-> row.classification,
     agent |-> row.agent, extracted |-> row.extracted,
     chained |-> row.chained, final |-> row.final, seen |-> row.seen]

\* C34: /upload and /ui_upload run the same core pipeline.  For the same
\* input, the same store content and the same outcomes of the external
\* calls, the two handlers have the same classification, the same extractor
\* result, the same final action and the same error if any, and they
\* append the same record or both append none.
C34_SameCorePipeline ==
    /\ run[UiUpload] = [run[Upload] EXCEPT !.pc = UiPosition(@)]
    /\ { CoreOfRecord(row) : row \in RowsOf(UiUpload, store) }
         = { CoreOfRecord(row) : row \in RowsOf(Upload, store) }
    /\ Cardinality(RowsOf(UiUpload, store)) = Cardinality(RowsOf(Upload, store))
    /\ Cardinality(RowsOf(Upload, store)) =
          IF run[Upload].pc = "done" THEN 1 ELSE 0

\* C34 witness: both handlers have returned after an email that was
\* escalated to the CRM, and each has appended its record of it.
C34_Witness ==
    /\ BothAt("done")
    /\ \E row \in RowsOf(Upload, store), ui \in RowsOf(UiUpload, store) :
          /\ row.chained = "Escalate to CRM"
          /\ row.final = "ok"
          /\ row.id # ui.id
          /\ CoreOfRecord(ui) = CoreOfRecord(row)

====
